---- MODULE Spec2Model ----
(***************************************************************************)
(* A model of the copy-trading signal pipeline: the transaction poller     *)
(* with its anchor, the main scan loop, the transaction log, the trading   *)
(* coordinator with strategy, executor and position manager, and the risk  *)
(* controller.                                                             *)
(*                                                                         *)
(* Signatures are modelled by the position of the transaction on the       *)
(* chain (1 is the oldest), so "newer in chain order" is a larger number;  *)
(* None (0) is Python's None.  Time is counted in hours.                   *)
(***************************************************************************)
EXTENDS Integers, Sequences, FiniteSets, TLC

\* ------------------------------------------------------------------ bounds
MaxChain == 6
MaxLimit == 4
MaxTime == 48      \* the clock stops here
TickHours == 12    \* the clock's step
MaxLosses == 7     \* cap of the consecutive-loss counter
MaxTxs == 3        \* length of the chain the scan loop is run against
MaxBatch == 2      \* length of a batch that is processed twice
MaxCrashes == 1    \* number of times the process is killed
MaxTrades == 2     \* trades the executor makes when it is driven on its own
MaxClock == 600    \* the polling strategy's clock runs on to here, in seconds
ClockStep == 50    \* the step of that clock
MaxDetections == 3 \* detections of new transactions the strategy is told of
MaxOracleTime == 12 \* the price oracle's clock stops here, in ticks
NumSources == 2    \* price sources the oracle holds, in priority order
MaxTransfers == 2  \* token transfers of a transaction handed to the parser
MaxPublishes == 3  \* notifications the tracker publishes to the update queue
MaxSwept == 2      \* open positions a sweep of the risk controller goes through
MaxCashOps == 1    \* deposits and withdrawals made on the executor's balance
MaxLedgerTime == 12 \* the clock stops here while the ledger is driven alone
MaxSignals == 2    \* signals the coordinator is handed within one session
MaxResets == 1     \* times the session is reset

\* ------------------------------------------------------- program constants
None == 0
MAX_CONSECUTIVE_LOSSES == 5
STOP_AFTER_TRIGGER_HOURS == 24
MAX_DRAWDOWN_PERCENT == -30     \* MAX_DRAWDOWN = -0.30, in percent
INITIAL_BALANCE == 100000       \* 1000.0 USD, in cents
TRADE_RATIO_PERCENT == 10       \* TRADE_RATIO = 0.10, in percent
MIN_TRADE_AMOUNT == 1000        \* 10.0 USD, in cents
USE_FIXED_AMOUNT == TRUE
FIXED_TRADE_AMOUNT == 5000
IDLE_INTERVAL == 30
BURST_INTERVAL == 5
BURST_DURATION == 300
PRICE_CACHE_TTL == 5
QUEUE_MAXSIZE == 0
ASSET_SYNC_MAX_RETRIES == 5
STOP_LOSS_PERCENT == -30
TAKE_PROFIT_PERCENT == 100
MAX_HOLD_TIME == 86400
PRICE_SOURCE_STRATEGY == "fallback"
SLIPPAGE_MIN_BPS == 50
SLIPPAGE_MAX_BPS == 5000
ALLOW_VIRTUAL_DEPOSIT == TRUE
ALLOW_VIRTUAL_WITHDRAWAL == FALSE
SCAN_LIMIT == 20                \* the limit _scan_and_process polls with
TARGET_WALLET == "wallet"
WSOL_MINT == "WSOL"

VARIABLES
    chain,            \* the wallet's on-chain history, oldest first
    last_known_sig,   \* TransactionPoller.last_known_sig (the anchor)
    poll_count,       \* number of poll() calls made so far (capped at 2)
    prev_anchor,      \* the anchor when the last poll() was entered
    prev_fetch_len,   \* how many items the poll() before the last one fetched
    fetched,          \* recent_txs of the last poll()
    poll_limit,       \* the limit argument of the last poll()
    ret_new,          \* first component of the last poll()'s return value
    ret_gap,          \* second component of the last poll()'s return value
    grown,            \* a transaction was appended since the last poll()
    repoll,           \* the last poll() followed another with no transaction between
    now,              \* datetime.now(), in hours
    consecutive_losses, \* RiskController.consecutive_losses
    is_paused,        \* RiskController.is_paused
    pause_until,      \* RiskController.pause_until (None or a time)
    pause_reason,     \* RiskController.pause_reason
    stored_risk,      \* metadata['risk_state'] of the session on disk
    risk_op,          \* the last operation made on the risk controller
    ret_allowed,      \* what the last check_trading_allowed() returned: allowed
    ret_reason,       \* what the last check_trading_allowed() returned: reason
    ret_resume,       \* what the last resume_trading() returned
    streak,           \* losses recorded in a row since the controller was last
                      \* Active with a zero counter (-1: the run was broken)
    loss_calls,       \* record_trade_result(False) calls made since the last
                      \* record_trade_result(True) or successful resume_trading()
    pc,               \* where the scan loop of main.py stands
    batch,            \* transactions of the current scan, oldest first
    batch_pos,        \* index in batch of the next transaction to handle
    tx_log,           \* signatures in the transaction log file, newest first
    balance,          \* VirtualExecutor.balance, in cents (saved on every change)
    positions,        \* PositionManager.positions (saved on every change)
    trades,           \* trades executed so far: <<signature, action>>, in order
    delivered,        \* signatures poll() has handed to the scan loop so far
    processed,        \* signatures the signal loop has gone through so far
    crashes,          \* number of times the process was killed
    passes,           \* number of passes started over the replayed batch
    first_pass,       \* balance, positions and trades when the second pass started
    ret_signal,       \* what the last process_signal() returned: success, stage
    stats_max_balance, \* the session statistics' highest balance so far
    ret_execution,    \* the last call of VirtualExecutor.execute and its result
    clock,            \* datetime.now() of the polling strategy, in seconds
    mode,             \* PollingStrategy.mode
    burst_end_time,   \* PollingStrategy.burst_end_time
    sched_op,         \* the last operation of the polling strategy
    ret_interval,     \* what the last get_interval() returned
    detections,       \* on_transaction_detected() calls made so far
    oracle_now,       \* time.time() of the price oracle, in ticks
    cache,            \* PriceOracle.cache: per mint the quote and its timestamp
    oracle_op,        \* the last operation of the price oracle
    ret_price,        \* the last get_price() call: what it found and returned
    parse_tx,         \* the transaction handed to SignalParser.parse
    parse_done,       \* whether parse has returned
    ret_signals,      \* the list of signals parse returned
    running,          \* per worker thread its self.running flag
    initialized,      \* per worker thread its self.initialized flag
    wpc,              \* per worker thread where it is in run()
    update_queue,     \* Orchestrator.update_queue: tracker -> asset updater
    published,        \* notifications the tracker has put on the queue
    failed,           \* <<stage, signature>> of every failure met in a scan
    sync_attempts,    \* update_from_chain() calls AssetUpdater.initialize made
    assets_synced,    \* whether one of them succeeded: asset data is there
    init_failure,     \* whether initialize() reported a failure to its caller
    sweep_in,         \* the controller a sweep is made on: switches, positions
    sweep_done,       \* whether check_all_positions has returned
    ret_actions,      \* the list of RiskActions it returned
    entry_time,       \* per mint Position.entry_time, in hours (None: no position)
    cash_ops,         \* deposit() and withdraw() calls that changed the balance
    ret_ledger,       \* the last call on the executor's balance and its result
    pause_txs,        \* signatures of the transactions made during a pause
    signal_stats,     \* TradingCoordinator's counters of signals and trades
    session_id        \* VirtualExecutor.session_id: sessions begun by a reset

pollVars == <<last_known_sig, poll_count, prev_anchor, prev_fetch_len, fetched,
              poll_limit, ret_new, ret_gap, grown, repoll>>

riskVars == <<consecutive_losses, is_paused, pause_until, pause_reason,
              stored_risk, risk_op, ret_allowed, ret_reason, ret_resume, streak,
              loss_calls>>

pipeVars == <<pc, batch, batch_pos, tx_log, balance, positions, trades,
              delivered, processed, crashes, passes, first_pass, ret_signal,
              stats_max_balance, ret_execution>>

schedVars == <<clock, mode, burst_end_time, sched_op, ret_interval, detections>>

\* The components that run beside the trading pipeline.
oracleVars == <<oracle_now, cache, oracle_op, ret_price>>

parserVars == <<parse_tx, parse_done, ret_signals>>

workerVars == <<running, initialized, wpc, update_queue, published>>

faultVars == <<failed>>

assetVars == <<sync_attempts, assets_synced, init_failure>>

sweepVars == <<sweep_in, sweep_done, ret_actions>>

ledgerVars == <<entry_time, cash_ops, ret_ledger>>

pauseVars == <<pause_txs>>

sessionVars == <<signal_stats, session_id>>

extraVars == <<assetVars, sweepVars, ledgerVars, pauseVars, sessionVars>>

otherVars == <<schedVars, oracleVars, parserVars, workerVars, faultVars,
               extraVars>>

vars == <<chain, pollVars, now, riskVars, pipeVars, otherVars>>

\* ------------------------------------------------------------ helpers
Min(a, b) == IF a < b THEN a ELSE b

\* Fault variant: the list is left in the order it came in.
Reverse_KeepsOrder(s) == s

\* list(reversed(s))
Reverse(s) == [i \in 1..Len(s) |-> s[Len(s) + 1 - i]]

Signatures(txs) == {txs[i].signature : i \in 1..Len(txs)}

\* ---------------------------------------------------- the chain-data source
\* A plain transfer: a transaction that is no swap.
TransferTx == [type |-> "TRANSFER", tokenTransfers |-> <<>>]

\* The k newest transactions of the chain, newest first.
Newest(k) == [i \in 1..k |-> chain[Len(chain) + 1 - i]]

\* HeliusMonitor.get_recent_transactions(limit): the newest-first list of at
\* most `limit` recent transactions.  The list is what the parse endpoint
\* answered: it is empty on any failure and may be shorter than `limit`.
get_recent_transactions(limit) ==
    {Newest(k) : k \in 0..Min(limit, Len(chain))}

\* The wallet makes a transaction (the environment).
NewTransaction(shape) ==
    /\ Len(chain) < MaxChain
    /\ chain' = Append(chain, [signature |-> Len(chain) + 1,
                               type |-> shape.type,
                               tokenTransfers |-> shape.tokenTransfers])
    /\ grown' = TRUE
    /\ UNCHANGED <<last_known_sig, poll_count, prev_anchor, prev_fetch_len,
                   fetched, poll_limit, ret_new, ret_gap, repoll>>

\* ------------------------------------------------------- TransactionPoller
\* The loop of poll(): the transactions scanned before the anchor is met.
RECURSIVE ScanFrom(_, _, _)
ScanFrom(recent_txs, anchor, i) ==
    IF i > Len(recent_txs) THEN [new_txs |-> recent_txs, found_anchor |-> FALSE]
    ELSE IF recent_txs[i].signature = anchor
         THEN [new_txs |-> SubSeq(recent_txs, 1, i - 1), found_anchor |-> TRUE]
         ELSE ScanFrom(recent_txs, anchor, i + 1)

\* Fault variant: the anchor itself is appended before the loop breaks.
ScanForAnchor_AnchorIncluded(recent_txs, anchor) ==
    LET scan == ScanFrom(recent_txs, anchor, 1)
    IN  IF scan.found_anchor
        THEN [new_txs |-> SubSeq(recent_txs, 1, Len(scan.new_txs) + 1),
              found_anchor |-> TRUE]
        ELSE scan

ScanForAnchor(recent_txs, anchor) == ScanFrom(recent_txs, anchor, 1)

\* Fault variant: the oldest fetched transaction is adopted.
FirstAnchor_Oldest(recent_txs) == recent_txs[Len(recent_txs)].signature

\* The anchor adopted on the first run: the newest fetched transaction.
FirstAnchor(recent_txs) == recent_txs[1].signature

\* Fault variant: the anchor is taken from the far end of the fetched list.
AdvancedAnchor_OldestFetched(recent_txs, new_txs) ==
    recent_txs[Len(recent_txs)].signature

\* The anchor after a scan that found new transactions: the newest of them.
AdvancedAnchor(recent_txs, new_txs) == new_txs[1].signature

\* Fault variant: the gap test compares with > instead of ==.
GapDetected_OffByOne(found_anchor, new_txs, limit) ==
    ~found_anchor /\ Len(new_txs) > limit

\* Step 4 of poll(): the gap test.
GapDetected(found_anchor, new_txs, limit) ==
    ~found_anchor /\ Len(new_txs) = limit

\* Fault variant: the first run hands the fetched history back as new.
FirstRunResult_ReplaysHistory(recent_txs) == recent_txs

\* What poll() returns on the first run, after adopting the anchor.
FirstRunResult(recent_txs) == <<>>

\* TransactionPoller.poll as a function of the anchor, the list the monitor
\* returned and the limit: the returned pair and the anchor afterwards.
poll(anchor, recent_txs, limit) ==
    IF recent_txs = <<>>
    THEN [new_txs |-> <<>>, gap_detected |-> FALSE, last_known_sig |-> anchor]
    ELSE IF anchor = None
    THEN [new_txs |-> FirstRunResult(recent_txs), gap_detected |-> FALSE,
          last_known_sig |-> FirstAnchor(recent_txs)]
    ELSE LET scan == ScanForAnchor(recent_txs, anchor)
             new_txs == scan.new_txs
         IN  IF GapDetected(scan.found_anchor, new_txs, limit)
             THEN [new_txs |-> new_txs, gap_detected |-> TRUE,
                   last_known_sig |-> IF new_txs # <<>>
                                      THEN AdvancedAnchor(recent_txs, new_txs) ELSE anchor]
             ELSE IF new_txs # <<>>
             THEN [new_txs |-> new_txs, gap_detected |-> FALSE,
                   last_known_sig |-> AdvancedAnchor(recent_txs, new_txs)]
             ELSE [new_txs |-> new_txs, gap_detected |-> FALSE,
                   last_known_sig |-> anchor]

\* One call poller.poll(limit) with the monitor answering recent_txs.
PollCall(limit, recent_txs) ==
    LET r == poll(last_known_sig, recent_txs, limit)
    IN  /\ last_known_sig' = r.last_known_sig
        /\ ret_new' = r.new_txs
        /\ ret_gap' = r.gap_detected
        /\ prev_anchor' = last_known_sig
        /\ prev_fetch_len' = Len(fetched)
        /\ fetched' = recent_txs
        /\ poll_limit' = limit
        /\ poll_count' = Min(poll_count + 1, 2)
        /\ repoll' = (poll_count > 0 /\ ~grown)
        /\ grown' = FALSE

\* poll() called on its own, with any limit.
Poll ==
    /\ \E limit \in 1..MaxLimit :
         \E recent_txs \in get_recent_transactions(limit) :
            PollCall(limit, recent_txs)
    /\ UNCHANGED chain

InitPoller ==
    /\ last_known_sig = None
    /\ poll_count = 0
    /\ prev_anchor = None
    /\ prev_fetch_len = 0
    /\ fetched = <<>>
    /\ poll_limit = 0
    /\ ret_new = <<>>
    /\ ret_gap = FALSE
    /\ grown = FALSE
    /\ repoll = FALSE

\* ---------------------------------------------------------- RiskController
\* metadata['risk_state'] of a session that never saved one.
NoRiskState == [saved |-> FALSE]

REASON_LOSSES == "consecutive losses reached the limit"
REASON_DRAWDOWN == "max drawdown"

\* Fault variant: the limit is compared with > instead of >=.
LossLimitReached_OffByOne(losses) == losses > MAX_CONSECUTIVE_LOSSES

\* record_trade_result: the test that triggers the pause.
LossLimitReached(losses) == losses >= MAX_CONSECUTIVE_LOSSES

\* Fault variant: the pause is triggered without a deadline.
PauseDeadline_Unset(t) == None

\* _trigger_pause: the deadline of a pause triggered at time t.
PauseDeadline(t) == t + STOP_AFTER_TRIGGER_HOURS

\* Fault variant: the gate reopens by itself once pause_until has passed.
check_trading_allowed_AutoResume(paused, until, t) ==
    IF paused /\ ~(until # None /\ t >= until)
    THEN [allowed |-> FALSE, reason |-> "paused, time remaining"]
    ELSE [allowed |-> TRUE, reason |-> ""]

\* RiskController.check_trading_allowed as a function of the state it reads.
check_trading_allowed(paused, until, t) ==
    IF paused
    THEN IF until # None /\ t >= until
         THEN [allowed |-> FALSE, reason |-> "paused, manual resume required"]
         ELSE IF until # None
              THEN [allowed |-> FALSE, reason |-> "paused, time remaining"]
              ELSE [allowed |-> FALSE, reason |-> "paused, manual resume required"]
    ELSE [allowed |-> TRUE, reason |-> ""]

\* check_max_drawdown: whether the drawdown from the peak breaches the limit.
DrawdownBreached(current_total_value, max_balance) ==
    /\ max_balance > 0
    /\ (current_total_value - max_balance) * 100
           <= MAX_DRAWDOWN_PERCENT * max_balance

\* datetime.isoformat: an instant written as text, the date (days) followed
\* by the time of day (hours).
isoformat(t) == <<t \div 24, t % 24>>

\* datetime.fromisoformat: the instant a text stands for.
fromisoformat(str) == str[1] * 24 + str[2]

\* _save_risk_state: the risk state as written into the session metadata.
SavedRiskState(losses, paused, until, reason) ==
    [saved |-> TRUE, consecutive_losses |-> losses, is_paused |-> paused,
     pause_until |-> IF until # None THEN isoformat(until) ELSE <<>>,
     pause_reason |-> reason]

\* The streak of losses after an operation that left the controller in the
\* state (paused, losses): it restarts whenever the controller is Active with
\* a zero counter.
StreakAfter(paused, losses, otherwise) ==
    IF ~paused /\ losses = 0 THEN 0 ELSE otherwise

\* The controller's state as a record.
RiskState(losses, paused, until, reason) ==
    [consecutive_losses |-> losses, is_paused |-> paused,
     pause_until |-> until, pause_reason |-> reason]

CurrentRisk == RiskState(consecutive_losses, is_paused, pause_until, pause_reason)

\* Fault variant: a loss at the limit does not trigger the pause again when
\* the controller is paused already.
record_trade_result_PausesOnce(risk, is_profit, t) ==
    LET losses == IF is_profit THEN 0 ELSE risk.consecutive_losses + 1
        trigger == ~is_profit /\ LossLimitReached(losses) /\ ~risk.is_paused
    IN  IF trigger
        THEN RiskState(losses, TRUE, PauseDeadline(t), REASON_LOSSES)
        ELSE RiskState(losses, risk.is_paused, risk.pause_until, risk.pause_reason)

\* Fault variant: a profit leaves the loss counter as it is.
record_trade_result_ProfitKeepsCount(risk, is_profit, t) ==
    IF is_profit THEN risk
    ELSE LET losses == risk.consecutive_losses + 1
         IN  IF losses >= MAX_CONSECUTIVE_LOSSES
             THEN [consecutive_losses |-> losses, is_paused |-> TRUE,
                   pause_until |-> t + STOP_AFTER_TRIGGER_HOURS,
                   pause_reason |-> "consecutive losses reached the limit"]
             ELSE [risk EXCEPT !.consecutive_losses = losses]

\* RiskController.record_trade_result(is_profit), called at time t in state
\* risk: the state it leaves.
record_trade_result(risk, is_profit, t) ==
    LET losses == IF is_profit THEN 0 ELSE risk.consecutive_losses + 1
        trigger == ~is_profit /\ LossLimitReached(losses)
    IN  IF trigger
        THEN RiskState(losses, TRUE, PauseDeadline(t), REASON_LOSSES)
        ELSE RiskState(losses, risk.is_paused, risk.pause_until, risk.pause_reason)

\* The streak of losses after record_trade_result(is_profit) left state r.
StreakAfterResult(r, is_profit) ==
    IF is_profit
    THEN StreakAfter(r.is_paused, r.consecutive_losses, -1)
    ELSE IF streak >= 0 THEN streak + 1 ELSE -1

\* RiskController.record_trade_result(is_profit)
RecordTradeResult(is_profit) ==
    /\ is_profit \/ consecutive_losses < MaxLosses
    /\ LET r == record_trade_result(CurrentRisk, is_profit, now)
       IN  /\ consecutive_losses' = r.consecutive_losses
           /\ is_paused' = r.is_paused
           /\ pause_until' = r.pause_until
           /\ pause_reason' = r.pause_reason
           /\ stored_risk' = SavedRiskState(r.consecutive_losses, r.is_paused,
                                            r.pause_until, r.pause_reason)
           /\ streak' = StreakAfterResult(r, is_profit)
           /\ loss_calls' = IF is_profit THEN 0 ELSE loss_calls + 1
    /\ risk_op' = IF is_profit THEN "record_profit" ELSE "record_loss"
    /\ UNCHANGED <<ret_allowed, ret_reason, ret_resume>>

\* RiskController.check_trading_allowed()
CheckTradingAllowed ==
    /\ LET r == check_trading_allowed(is_paused, pause_until, now)
       IN  /\ ret_allowed' = r.allowed
           /\ ret_reason' = r.reason
    /\ risk_op' = "check_trading_allowed"
    /\ UNCHANGED <<consecutive_losses, is_paused, pause_until, pause_reason,
                   stored_risk, ret_resume, streak, loss_calls>>

\* RiskController.check_max_drawdown(current_total_value, max_balance)
CheckMaxDrawdown(current_total_value, max_balance) ==
    /\ IF DrawdownBreached(current_total_value, max_balance)
       THEN /\ is_paused' = TRUE
            /\ pause_reason' = REASON_DRAWDOWN
            /\ pause_until' = PauseDeadline(now)
            /\ stored_risk' = SavedRiskState(consecutive_losses, TRUE,
                                             PauseDeadline(now), REASON_DRAWDOWN)
            /\ streak' = -1
       ELSE UNCHANGED <<is_paused, pause_reason, pause_until, stored_risk, streak>>
    /\ risk_op' = "check_max_drawdown"
    /\ UNCHANGED <<consecutive_losses, ret_allowed, ret_reason, ret_resume,
                   loss_calls>>

\* Fault variant: resuming leaves the loss counter as it is.
ResumeTrading_KeepsCounter ==
    /\ IF ~is_paused
       THEN /\ ret_resume' = FALSE
            /\ UNCHANGED <<is_paused, pause_until, stored_risk, streak>>
       ELSE /\ is_paused' = FALSE
            /\ pause_until' = None
            /\ stored_risk' = SavedRiskState(consecutive_losses, FALSE, None,
                                             pause_reason)
            /\ streak' = -1
            /\ ret_resume' = TRUE
    /\ risk_op' = "resume_trading"
    /\ UNCHANGED <<consecutive_losses, loss_calls, pause_reason, ret_allowed,
                   ret_reason>>

\* RiskController.resume_trading()
ResumeTrading ==
    /\ IF ~is_paused
       THEN /\ ret_resume' = FALSE
            /\ UNCHANGED <<is_paused, pause_until, consecutive_losses,
                           stored_risk, streak, loss_calls>>
       ELSE /\ is_paused' = FALSE
            /\ pause_until' = None
            /\ consecutive_losses' = 0
            /\ stored_risk' = SavedRiskState(0, FALSE, None, pause_reason)
            /\ streak' = 0
            /\ loss_calls' = 0
            /\ ret_resume' = TRUE
    /\ risk_op' = "resume_trading"
    /\ UNCHANGED <<pause_reason, ret_allowed, ret_reason>>

\* Fault variant: the stored deadline is read back as a date, without the
\* time of day.
load_risk_state_DateOnly(stored) ==
    IF stored.saved
    THEN RiskState(stored.consecutive_losses, stored.is_paused,
                   IF stored.pause_until # <<>>
                   THEN stored.pause_until[1] * 24
                   ELSE None,
                   stored.pause_reason)
    ELSE RiskState(0, FALSE, None, "")

\* RiskController._load_risk_state: the state a controller constructed over
\* the stored session metadata starts in.
load_risk_state(stored) ==
    IF stored.saved
    THEN RiskState(stored.consecutive_losses, stored.is_paused,
                   IF stored.pause_until # <<>>
                   THEN fromisoformat(stored.pause_until)
                   ELSE None,
                   stored.pause_reason)
    ELSE RiskState(0, FALSE, None, "")

\* RiskController.__init__: a controller constructed after a restart.
LoadRiskState ==
    /\ LET r == load_risk_state(stored_risk)
       IN  /\ consecutive_losses' = r.consecutive_losses
           /\ is_paused' = r.is_paused
           /\ pause_until' = r.pause_until
           /\ pause_reason' = r.pause_reason
           /\ streak' = StreakAfter(r.is_paused, r.consecutive_losses, streak)
    /\ risk_op' = "init"
    /\ UNCHANGED <<stored_risk, ret_allowed, ret_reason, ret_resume, loss_calls>>

\* Time passes.
Tick ==
    /\ now + TickHours <= MaxTime
    /\ now' = now + TickHours

InitRisk ==
    /\ consecutive_losses = 0
    /\ is_paused = FALSE
    /\ pause_until = None
    /\ pause_reason = ""
    /\ stored_risk = NoRiskState
    /\ risk_op = "init"
    /\ ret_allowed = TRUE
    /\ ret_reason = ""
    /\ ret_resume = FALSE
    /\ streak = 0
    /\ loss_calls = 0

\* The portfolio values check_max_drawdown is called with: <<total, peak>>.
DrawdownInputs == {<<1000, 1000>>, <<701, 1000>>, <<700, 1000>>, <<500, 0>>}

NextRisk ==
    \/ /\ \E is_profit \in BOOLEAN : RecordTradeResult(is_profit)
       /\ UNCHANGED <<chain, pollVars, now, pipeVars, otherVars>>
    \/ /\ CheckTradingAllowed
       /\ UNCHANGED <<chain, pollVars, now, pipeVars, otherVars>>
    \/ /\ \E input \in DrawdownInputs : CheckMaxDrawdown(input[1], input[2])
       /\ UNCHANGED <<chain, pollVars, now, pipeVars, otherVars>>
    \/ /\ ResumeTrading
       /\ UNCHANGED <<chain, pollVars, now, pipeVars, otherVars>>
    \/ /\ LoadRiskState
       /\ UNCHANGED <<chain, pollVars, now, pipeVars, otherVars>>
    \/ /\ Tick
       /\ UNCHANGED <<chain, pollVars, riskVars, pipeVars, otherVars>>


\* ------------------------------------------------------------ SignalParser
NoMint == ""
SwapTypes == {"SWAP"}

\* A token transfer of a parsed transaction.
Transfer(mint, from, to, tokenAmount) ==
    [mint |-> mint, fromUserAccount |-> from, toUserAccount |-> to,
     tokenAmount |-> tokenAmount]

\* A swap in which the wallet receives the token.
BuyTx(mint) ==
    [type |-> "SWAP", tokenTransfers |-> <<Transfer(mint, "pool", TARGET_WALLET, 5)>>]

\* A swap in which the wallet gives the token away.
SellTx(mint) ==
    [type |-> "SWAP", tokenTransfers |-> <<Transfer(mint, TARGET_WALLET, "pool", 5)>>]

\* SignalParser._is_swap_transaction
is_swap_transaction(tx_data) == tx_data.type \in SwapTypes

\* SignalParser._calculate_token_change: the loop over the token transfers,
\* from index i with the running result acc.
RECURSIVE calculate_token_change(_, _, _)
calculate_token_change(token_transfers, i, acc) ==
    IF i > Len(token_transfers) THEN acc
    ELSE LET transfer == token_transfers[i]
         IN  calculate_token_change(token_transfers, i + 1,
                 IF transfer.mint = WSOL_MINT THEN acc
                 ELSE IF transfer.toUserAccount = TARGET_WALLET
                      THEN [token_change |-> transfer.tokenAmount,
                            token_mint |-> transfer.mint]
                      ELSE IF transfer.fromUserAccount = TARGET_WALLET
                           THEN [token_change |-> -transfer.tokenAmount,
                                 token_mint |-> transfer.mint]
                           ELSE acc)

\* SignalParser.parse: the list of signals of one transaction.
parse(tx_data) ==
    IF ~is_swap_transaction(tx_data) THEN <<>>
    ELSE LET c == calculate_token_change(tx_data.tokenTransfers, 1,
                      [token_change |-> 0, token_mint |-> NoMint])
         IN  IF c.token_change > 0
             THEN <<[signature |-> tx_data.signature, action |-> "BUY",
                     token_mint |-> c.token_mint, amount |-> c.token_change]>>
             ELSE IF c.token_change < 0
                  THEN <<[signature |-> tx_data.signature, action |-> "SELL",
                          token_mint |-> c.token_mint, amount |-> -c.token_change]>>
                  ELSE <<>>

\* The transactions handed to the parser: swaps and plain transfers with up
\* to MaxTransfers token transfers, of the token or of wrapped SOL, to the
\* wallet, from it, or between others.
TransferAmounts == {0, 3, 5}
TokenTransfers ==
    { Transfer(mint, from, to, a) :
        mint \in {"A", WSOL_MINT},
        from \in {TARGET_WALLET, "pool"}, to \in {TARGET_WALLET, "pool"},
        a \in TransferAmounts }
TxInputs ==
    { [type |-> type, signature |-> 1, tokenTransfers |-> ts] :
        type \in {"SWAP", "TRANSFER"},
        ts \in UNION { [1..n -> TokenTransfers] : n \in 0..MaxTransfers } }

NoTx == [type |-> "UNKNOWN", signature |-> None, tokenTransfers |-> <<>>]

\* SignalParser.parse(tx_data) is called and returns.
ParseTx ==
    /\ ~parse_done
    /\ parse_done' = TRUE
    /\ ret_signals' = parse(parse_tx)
    /\ UNCHANGED parse_tx

\* No transaction has been handed to the parser.
InitParser ==
    /\ parse_tx = NoTx
    /\ parse_done = FALSE
    /\ ret_signals = <<>>

\* Money is counted in cents and prices in cents per token; token amounts are
\* whole numbers and every division rounds down.
Mints == {"A"}
Prices == {100, 300}
SlippageBps == {SLIPPAGE_MIN_BPS, SLIPPAGE_MAX_BPS}

\* Prices per token held by a position (cost_basis, current_price) are kept
\* in units of 1/PriceUnit cent.
PriceUnit == 1000

\* A mint without an entry in PositionManager.positions.
NoPosition ==
    [held |-> FALSE, amount |-> 0, cost_basis |-> 0, total_cost |-> 0,
     current_price |-> 0]
NoPositions == [m \in Mints |-> NoPosition]

\* PositionManager.get_position(mint) found a position.
HasPosition(pos, mint) == pos[mint].held

\* Fault variant: adding to a position keeps the old average cost.
add_position_StaleCostBasis(pos, mint, amount, cost) ==
    IF amount <= 0 THEN pos
    ELSE LET cost_per_token == (cost * PriceUnit) \div amount
         IN  IF HasPosition(pos, mint)
             THEN [pos EXCEPT ![mint] =
                      [held |-> TRUE, amount |-> @.amount + amount,
                       cost_basis |-> @.cost_basis,
                       total_cost |-> @.total_cost + cost,
                       current_price |-> @.current_price]]
             ELSE [pos EXCEPT ![mint] =
                      [held |-> TRUE, amount |-> amount, cost_basis |-> cost_per_token,
                       total_cost |-> cost, current_price |-> cost_per_token]]

\* PositionManager.add_position
add_position(pos, mint, amount, cost) ==
    IF amount <= 0 THEN pos
    ELSE LET cost_per_token == (cost * PriceUnit) \div amount
         IN  IF HasPosition(pos, mint)
             THEN LET total_cost == pos[mint].total_cost + cost
                      total_amount == pos[mint].amount + amount
                  IN  [pos EXCEPT ![mint] =
                          [held |-> TRUE, amount |-> total_amount,
                           cost_basis |-> (total_cost * PriceUnit) \div total_amount,
                           total_cost |-> total_cost,
                           current_price |-> @.current_price]]
             ELSE [pos EXCEPT ![mint] =
                      [held |-> TRUE, amount |-> amount, cost_basis |-> cost_per_token,
                       total_cost |-> cost, current_price |-> cost_per_token]]

\* Fault variant: a position sold in full keeps its entry.
reduce_position_KeepsEmptyEntry(pos, mint, amount, exit_price) ==
    IF ~HasPosition(pos, mint) \/ amount > pos[mint].amount THEN pos
    ELSE [pos EXCEPT ![mint] =
             [held |-> TRUE, amount |-> @.amount - amount,
              cost_basis |-> @.cost_basis,
              total_cost |-> @.total_cost - (@.cost_basis * amount) \div PriceUnit,
              current_price |-> exit_price]]

\* PositionManager.reduce_position: the positions it leaves.
reduce_position(pos, mint, amount, exit_price) ==
    IF ~HasPosition(pos, mint) \/ amount > pos[mint].amount THEN pos
    ELSE IF amount >= pos[mint].amount
         THEN [pos EXCEPT ![mint] = NoPosition]
         ELSE [pos EXCEPT ![mint] =
                  [held |-> TRUE, amount |-> @.amount - amount,
                   cost_basis |-> @.cost_basis,
                   total_cost |-> @.total_cost - (@.cost_basis * amount) \div PriceUnit,
                   current_price |-> exit_price]]

\* PositionManager.reduce_position: the realized profit it returns, for a sale
\* of amount tokens that brings income.
realized_pnl(pos, mint, amount, income) ==
    IF ~HasPosition(pos, mint) \/ amount > pos[mint].amount THEN 0
    ELSE income - (pos[mint].cost_basis * amount) \div PriceUnit

\* PositionManager.calculate_total_value over the mints of ms.
RECURSIVE calculate_total_value(_, _)
calculate_total_value(pos, ms) ==
    IF ms = {} THEN 0
    ELSE LET m == CHOOSE x \in ms : TRUE
         IN  (pos[m].amount * pos[m].current_price) \div PriceUnit
             + calculate_total_value(pos, ms \ {m})

\* VirtualExecutor.get_total_value
get_total_value(bal, pos) == bal + calculate_total_value(pos, Mints)

SkipDecision(reason) ==
    [should_trade |-> FALSE, action |-> "SKIP", token_mint |-> NoMint,
     amount |-> 0, reason |-> reason]

\* TradingStrategy._calculate_buy_amount
calculate_buy_amount(price, current_balance) ==
    LET available_funds == (current_balance * TRADE_RATIO_PERCENT) \div 100
    IN  IF available_funds < MIN_TRADE_AMOUNT THEN 0
        ELSE available_funds \div price

\* Fault variant: a sale follows the quantity of the signal.
decide_SellsSignalAmount(signal, price, current_balance, pos) ==
    IF price = None THEN SkipDecision("no price")
    ELSE IF signal.action = "BUY"
         THEN LET amount == calculate_buy_amount(price, current_balance)
              IN  IF amount <= 0 THEN SkipDecision("trade amount too small")
                  ELSE [should_trade |-> TRUE, action |-> "BUY",
                        token_mint |-> signal.token_mint, amount |-> amount,
                        reason |-> "follow buy"]
         ELSE IF signal.action = "SELL"
              THEN IF ~HasPosition(pos, signal.token_mint)
                   THEN SkipDecision("no position to sell")
                   ELSE [should_trade |-> TRUE, action |-> "SELL",
                         token_mint |-> signal.token_mint,
                         amount |-> signal.amount,
                         reason |-> "follow sell"]
              ELSE SkipDecision("unknown signal type")

\* TradingStrategy.decide
decide(signal, price, current_balance, pos) ==
    IF price = None THEN SkipDecision("no price")
    ELSE IF signal.action = "BUY"
         THEN LET amount == calculate_buy_amount(price, current_balance)
              IN  IF amount <= 0 THEN SkipDecision("trade amount too small")
                  ELSE [should_trade |-> TRUE, action |-> "BUY",
                        token_mint |-> signal.token_mint, amount |-> amount,
                        reason |-> "follow buy"]
         ELSE IF signal.action = "SELL"
              THEN IF ~HasPosition(pos, signal.token_mint)
                   THEN SkipDecision("no position to sell")
                   ELSE [should_trade |-> TRUE, action |-> "SELL",
                         token_mint |-> signal.token_mint,
                         amount |-> pos[signal.token_mint].amount,
                         reason |-> "follow sell"]
              ELSE SkipDecision("unknown signal type")

\* VirtualExecutor.execute_sell: executed_price, the oracle's price lowered by
\* the slippage, in the unit of the position prices.
exit_price(price, bps) == (((price * PriceUnit) \div 100) * (10000 - bps)) \div 100

\* VirtualExecutor._create_skip_result
create_skip_result(decision, bal, pos, reason) ==
    [success |-> FALSE, action |-> "SKIP", balance |-> bal, positions |-> pos,
     pnl |-> 0, error_message |-> reason]

\* VirtualExecutor._create_error_result
create_error_result(decision, bal, pos, error_message) ==
    [success |-> FALSE, action |-> decision.action, balance |-> bal,
     positions |-> pos, pnl |-> 0, error_message |-> error_message]

\* Fault variant: the cost is compared with the balance before slippage is
\* added to it.
execute_buy_QuotedCost(decision, price, bps, bal, pos) ==
    LET actual_cost == (price * (10000 + bps) * decision.amount) \div 10000
    IN  IF price * decision.amount > bal
        THEN create_error_result(decision, bal, pos, "insufficient balance")
        ELSE [success |-> TRUE, action |-> "BUY", balance |-> bal - actual_cost,
              positions |-> add_position(pos, decision.token_mint,
                                         decision.amount, actual_cost),
              pnl |-> 0, error_message |-> ""]

\* Fault variant: the balance is debited before it is found too small.
execute_buy_DebitsFirst(decision, price, bps, bal, pos) ==
    LET actual_cost == (price * (10000 + bps) * decision.amount) \div 10000
    IN  IF actual_cost > bal
        THEN create_error_result(decision, bal - actual_cost, pos,
                                 "insufficient balance")
        ELSE [success |-> TRUE, action |-> "BUY", balance |-> bal - actual_cost,
              positions |-> add_position(pos, decision.token_mint,
                                         decision.amount, actual_cost),
              pnl |-> 0, error_message |-> ""]

\* VirtualExecutor.execute_buy
execute_buy(decision, price, bps, bal, pos) ==
    LET actual_cost == (price * (10000 + bps) * decision.amount) \div 10000
    IN  IF actual_cost > bal
        THEN create_error_result(decision, bal, pos, "insufficient balance")
        ELSE [success |-> TRUE, action |-> "BUY", balance |-> bal - actual_cost,
              positions |-> add_position(pos, decision.token_mint,
                                         decision.amount, actual_cost),
              pnl |-> 0, error_message |-> ""]

\* VirtualExecutor.execute_sell
execute_sell(decision, price, bps, bal, pos) ==
    IF ~HasPosition(pos, decision.token_mint)
    THEN create_error_result(decision, bal, pos, "no position")
    ELSE IF decision.amount > pos[decision.token_mint].amount
         THEN create_error_result(decision, bal, pos, "insufficient position")
         ELSE LET actual_income ==
                      (price * (10000 - bps) * decision.amount) \div 10000
              IN  [success |-> TRUE, action |-> "SELL",
                   balance |-> bal + actual_income,
                   positions |-> reduce_position(pos, decision.token_mint,
                                       decision.amount,
                                       exit_price(price, bps)),
                   pnl |-> realized_pnl(pos, decision.token_mint,
                                        decision.amount, actual_income),
                   error_message |-> ""]

\* VirtualExecutor.execute
execute(decision, price, bps, bal, pos) ==
    IF ~decision.should_trade
    THEN create_skip_result(decision, bal, pos, "decision says skip")
    ELSE IF decision.action = "BUY"
         THEN execute_buy(decision, price, bps, bal, pos)
         ELSE IF decision.action = "SELL"
              THEN execute_sell(decision, price, bps, bal, pos)
              ELSE create_error_result(decision, bal, pos, "unknown action")

\* ret_execution before the executor was first called.
NoExecution ==
    [called |-> FALSE, decision |-> SkipDecision(""), price |-> None, bps |-> 0,
     success |-> FALSE, error_message |-> "",
     balance_before |-> 0, positions_before |-> NoPositions,
     trades_before |-> <<>>]

\* What process_signal leaves and returns when it stops before executing.
SignalRefused(stage, allowed) ==
    [success |-> FALSE, stage |-> stage, allowed |-> allowed, action |-> "SKIP",
     balance |-> balance, positions |-> positions, risk |-> CurrentRisk,
     recorded |-> FALSE, is_profit |-> FALSE]

\* VirtualExecutor._update_session_stats_after_buy / _after_sell: the highest
\* balance of the session statistics after process_signal returned r.
update_max_balance(highest, r) ==
    IF r.success /\ r.balance > highest THEN r.balance ELSE highest

\* Fault variant: process_signal goes to the strategy without asking the risk
\* controller.
process_signal_NoRiskCheck(signal, price, bps) ==
    LET decision == decide(signal, price, balance, positions)
        execution == execute(decision, price, bps, balance, positions)
        is_sell == execution.action = "SELL"
        is_profit == execution.pnl > 0
    IN  IF ~decision.should_trade THEN SignalRefused("strategy", TRUE)
        ELSE IF ~execution.success THEN SignalRefused("execution", TRUE)
        ELSE [success |-> TRUE, stage |-> "done", allowed |-> TRUE,
              action |-> execution.action,
              balance |-> execution.balance, positions |-> execution.positions,
              risk |-> IF is_sell
                       THEN record_trade_result(CurrentRisk, is_profit, now)
                       ELSE CurrentRisk,
              recorded |-> is_sell, is_profit |-> is_profit]

\* TradingCoordinator.process_signal for a signal, with the price the oracle
\* answers (None when it has none) and the slippage the executor draws.
process_signal(signal, price, bps) ==
    LET gate == check_trading_allowed(is_paused, pause_until, now)
        decision == decide(signal, price, balance, positions)
        execution == execute(decision, price, bps, balance, positions)
        is_sell == execution.action = "SELL"
        is_profit == execution.pnl > 0
    IN  IF ~gate.allowed THEN SignalRefused("risk check", FALSE)
        ELSE IF ~decision.should_trade THEN SignalRefused("strategy", TRUE)
        ELSE IF ~execution.success THEN SignalRefused("execution", TRUE)
        ELSE [success |-> TRUE, stage |-> "done", allowed |-> TRUE,
              action |-> execution.action,
              balance |-> execution.balance, positions |-> execution.positions,
              risk |-> IF is_sell
                       THEN record_trade_result(CurrentRisk, is_profit, now)
                       ELSE CurrentRisk,
              recorded |-> is_sell, is_profit |-> is_profit]

\* ------------------------------------------------------- transaction log
\* TransactionLogger.save_transaction: the log after saving one signature.
save_transaction(log, signature) ==
    IF \E i \in 1..Len(log) : log[i] = signature THEN log
    ELSE <<signature>> \o log

\* TransactionProcessor.process_batch: the log after saving the batch from
\* index i on.
RECURSIVE process_batch(_, _, _)
process_batch(log, transactions, i) ==
    IF i > Len(transactions) THEN log
    ELSE process_batch(save_transaction(log, transactions[i].signature),
                       transactions, i + 1)

\* ------------------------------------------------- the scan loop of main.py
TxShapes == {TransferTx} \cup {BuyTx(m) : m \in Mints} \cup {SellTx(m) : m \in Mints}

\* VirtualTradingSystem._scan_and_process up to the signal loop: the risk
\* gate, poll(), the reversal of the batch and its saving to the log.
Scan ==
    /\ pc = "idle"
    /\ LET gate == check_trading_allowed(is_paused, pause_until, now)
       IN  /\ ret_allowed' = gate.allowed
           /\ ret_reason' = gate.reason
           /\ risk_op' = "check_trading_allowed"
           /\ IF ~gate.allowed
              THEN UNCHANGED <<last_known_sig, pc, batch, batch_pos, tx_log,
                               delivered>>
              ELSE \E recent_txs \in get_recent_transactions(SCAN_LIMIT) :
                     LET r == poll(last_known_sig, recent_txs, SCAN_LIMIT)
                         transactions == Reverse(r.new_txs)
                     IN  /\ last_known_sig' = r.last_known_sig
                         /\ batch' = transactions
                         /\ batch_pos' = 1
                         /\ pc' = IF transactions = <<>> THEN "idle" ELSE "trade"
                         /\ tx_log' = process_batch(tx_log, transactions, 1)
                         /\ delivered' = delivered \cup Signatures(transactions)
    /\ UNCHANGED <<chain, poll_count, prev_anchor, prev_fetch_len, fetched,
                   poll_limit, ret_new, ret_gap, grown, repoll, now,
                   consecutive_losses, is_paused, pause_until, pause_reason,
                   stored_risk, ret_resume, streak, loss_calls, balance,
                   positions, trades,
                   processed, crashes, passes, first_pass, ret_signal,
                   stats_max_balance, ret_execution,
                   otherVars>>

\* One round of the signal loop of _scan_and_process: parse the next
\* transaction of the batch and hand its signal to process_signal.  After the
\* last transaction the scan ends; with position stop-loss and take-profit
\* switched off the position sweep finds nothing to do, and the price update
\* that follows changes nothing.
ProcessTx ==
    /\ pc = "trade"
    /\ batch_pos <= Len(batch)
    /\ LET tx == batch[batch_pos]
           signals == parse(tx)
       IN  /\ IF signals = <<>>
              THEN UNCHANGED <<balance, positions, trades, riskVars, ret_signal,
                               stats_max_balance>>
              ELSE \E price \in Prices \cup {None} : \E bps \in SlippageBps :
                     LET r == process_signal(signals[1], price, bps)
                     IN  /\ balance' = r.balance
                         /\ positions' = r.positions
                         /\ trades' = IF r.success
                                      THEN Append(trades, <<tx.signature, r.action>>)
                                      ELSE trades
                         /\ consecutive_losses' = r.risk.consecutive_losses
                         /\ is_paused' = r.risk.is_paused
                         /\ pause_until' = r.risk.pause_until
                         /\ pause_reason' = r.risk.pause_reason
                         /\ stored_risk' =
                                IF r.recorded
                                THEN SavedRiskState(r.risk.consecutive_losses,
                                         r.risk.is_paused, r.risk.pause_until,
                                         r.risk.pause_reason)
                                ELSE stored_risk
                         /\ streak' = IF r.recorded
                                      THEN StreakAfterResult(r.risk, r.is_profit)
                                      ELSE streak
                         /\ loss_calls' = IF ~r.recorded THEN loss_calls
                                          ELSE IF r.is_profit THEN 0
                                               ELSE loss_calls + 1
                         /\ ret_signal' = [success |-> r.success, stage |-> r.stage]
                         /\ stats_max_balance' = update_max_balance(stats_max_balance, r)
                         /\ risk_op' = "process_signal"
                         /\ ret_allowed' = r.allowed
                         /\ UNCHANGED <<ret_reason, ret_resume>>
           /\ processed' = processed \cup {tx.signature}
    /\ batch_pos' = batch_pos + 1
    /\ pc' = IF batch_pos = Len(batch) THEN "idle" ELSE "trade"
    /\ UNCHANGED <<chain, pollVars, now, batch, tx_log, delivered, crashes,
                   passes, first_pass, ret_execution,
                   otherVars>>

\* The process is killed: what it held in memory is gone.
Crash ==
    /\ pc # "down"
    /\ crashes < MaxCrashes
    /\ crashes' = crashes + 1
    /\ pc' = "down"
    /\ batch' = <<>>
    /\ batch_pos' = 1
    /\ last_known_sig' = None
    /\ UNCHANGED <<chain, poll_count, prev_anchor, prev_fetch_len, fetched,
                   poll_limit, ret_new, ret_gap, grown, repoll, now, riskVars,
                   tx_log, balance, positions, trades, delivered, processed,
                   passes, first_pass, ret_signal, stats_max_balance,
                   ret_execution,
                   otherVars>>

\* VirtualExecutor.__init__: the balance a new executor starts with.
load_balance(stored_balance) ==
    IF stored_balance = 0 THEN INITIAL_BALANCE ELSE stored_balance

\* VirtualTradingSystem.__init__ after a crash: balance, positions and risk
\* state are loaded from storage; the poller is new and has no anchor.
Restart ==
    /\ pc = "down"
    /\ pc' = "idle"
    /\ last_known_sig' = None
    /\ balance' = load_balance(balance)
    /\ LET r == load_risk_state(stored_risk)
       IN  /\ consecutive_losses' = r.consecutive_losses
           /\ is_paused' = r.is_paused
           /\ pause_until' = r.pause_until
           /\ pause_reason' = r.pause_reason
           /\ streak' = StreakAfter(r.is_paused, r.consecutive_losses, streak)
    /\ risk_op' = "init"
    /\ UNCHANGED <<chain, poll_count, prev_anchor, prev_fetch_len, fetched,
                   poll_limit, ret_new, ret_gap, grown, repoll, now, stored_risk,
                   ret_allowed, ret_reason, ret_resume, loss_calls, batch,
                   batch_pos, tx_log,
                   positions, trades, delivered, processed, crashes, passes,
                   first_pass, ret_signal, stats_max_balance, ret_execution,
                   otherVars>>

InitPipeline ==
    /\ pc = "idle"
    /\ batch = <<>>
    /\ batch_pos = 1
    /\ tx_log = <<>>
    /\ balance = INITIAL_BALANCE
    /\ positions = NoPositions
    /\ trades = <<>>
    /\ delivered = {}
    /\ processed = {}
    /\ crashes = 0
    /\ passes = 0
    /\ first_pass = [balance |-> INITIAL_BALANCE, positions |-> NoPositions,
                     trades |-> <<>>]
    /\ ret_signal = [success |-> FALSE, stage |-> ""]
    /\ stats_max_balance = INITIAL_BALANCE
    /\ ret_execution = NoExecution

\* ------------------------------------------------- failures within a scan
\* The steps of a scan that may fail on one transaction: the analysis and
\* saving of process_batch, parse, the handling of a signal in the loop of
\* _scan_and_process, and process_signal with the execution it makes.
FailureStages == {"save", "parse", "signal", "execute"}

\* Fault variant: only the handler around the whole scan catches.
handler_ScanOnly(stage) == "scan"

\* Where a failure of a stage is caught: "item" by a handler around the
\* work on one transaction, after which the loop goes on with the next one;
\* "scan" by the handler around _scan_and_process, which ends the scan.
handler(stage) ==
    IF stage \in FailureStages THEN "item" ELSE "scan"

\* TransactionProcessor.process_batch when the analysis or saving of the
\* transactions at the indices in failing fails: the log after the batch from
\* index i on.
RECURSIVE process_batch_failing(_, _, _, _)
process_batch_failing(log, transactions, i, failing) ==
    IF i > Len(transactions) THEN log
    ELSE IF i \in failing
         THEN IF handler("save") = "item"
              THEN process_batch_failing(log, transactions, i + 1, failing)
              ELSE log
         ELSE process_batch_failing(
                  save_transaction(log, transactions[i].signature),
                  transactions, i + 1, failing)

\* Scan, the saving of some transactions of the batch failing.
ScanSaveFails ==
    /\ pc = "idle"
    /\ LET gate == check_trading_allowed(is_paused, pause_until, now)
       IN  /\ gate.allowed
           /\ ret_allowed' = gate.allowed
           /\ ret_reason' = gate.reason
           /\ risk_op' = "check_trading_allowed"
           /\ \E recent_txs \in get_recent_transactions(SCAN_LIMIT) :
                LET r == poll(last_known_sig, recent_txs, SCAN_LIMIT)
                    transactions == Reverse(r.new_txs)
                IN  /\ transactions # <<>>
                    /\ \E failing \in (SUBSET (1..Len(transactions))) \ {{}} :
                         /\ tx_log' = process_batch_failing(tx_log, transactions,
                                                            1, failing)
                         /\ failed' = failed \cup
                                {<<"save", transactions[i].signature>> : i \in failing}
                    /\ last_known_sig' = r.last_known_sig
                    /\ batch' = transactions
                    /\ batch_pos' = 1
                    /\ pc' = IF handler("save") = "item" THEN "trade" ELSE "idle"
                    /\ delivered' = delivered \cup Signatures(transactions)
    /\ UNCHANGED <<chain, poll_count, prev_anchor, prev_fetch_len, fetched,
                   poll_limit, ret_new, ret_gap, grown, repoll, now,
                   consecutive_losses, is_paused, pause_until, pause_reason,
                   stored_risk, ret_resume, streak, loss_calls, balance,
                   positions, trades,
                   processed, crashes, passes, first_pass, ret_signal,
                   stats_max_balance, ret_execution,
                   schedVars, oracleVars, parserVars, workerVars, extraVars>>

\* One round of the signal loop in which parse, the handling of the signal
\* or process_signal fails.  parse and process_signal catch what they raise
\* themselves (parse returns no signal, process_signal a result without
\* success); anything else raised in the round is caught by the handler of
\* the loop.
ProcessTxFails ==
    /\ pc = "trade"
    /\ batch_pos <= Len(batch)
    /\ \E stage \in FailureStages \ {"save"} :
         /\ failed' = failed \cup {<<stage, batch[batch_pos].signature>>}
         /\ ret_signal' = IF stage = "execute"
                          THEN [success |-> FALSE, stage |-> "error"]
                          ELSE ret_signal
         /\ IF handler(stage) = "item"
            THEN /\ processed' = processed \cup {batch[batch_pos].signature}
                 /\ batch_pos' = batch_pos + 1
                 /\ pc' = IF batch_pos = Len(batch) THEN "idle" ELSE "trade"
            ELSE /\ pc' = "idle"
                 /\ UNCHANGED <<processed, batch_pos>>
    /\ UNCHANGED <<chain, pollVars, now, riskVars, batch, tx_log, balance,
                   positions, trades, delivered, crashes, passes, first_pass,
                   stats_max_balance, ret_execution,
                   schedVars, oracleVars, parserVars, workerVars, extraVars>>

\* ------------------------------------------------------------ the price oracle
\* The oracle's clock counts ticks of 1/TicksPerSecond second.
TicksPerSecond == 2

\* int(time.time()) at tick t: the time in whole seconds.
int_time(t) == t \div TicksPerSecond

NoPriceInfo == [price_usd |-> None]
PriceInfo(price_usd) == [price_usd |-> price_usd]

\* What a source may do when queried: raise, answer nothing, or answer a
\* price per token (0: the asset has no price).
SourceAnswers ==
    { [kind |-> "raise", price |-> 0], [kind |-> "none", price |-> 0] } \cup
    { [kind |-> "price", price |-> p] : p \in {0} \cup Prices }

\* HeliusSource.query: the quote made of a source's answer.
query(answer) ==
    IF answer.kind # "price" THEN NoPriceInfo
    ELSE IF answer.price <= 0 THEN NoPriceInfo
         ELSE PriceInfo(answer.price)

NoCacheEntry == [present |-> FALSE, info |-> NoPriceInfo, cached_time |-> 0,
                 stored_at |-> 0]

\* Fault variant: an entry never goes stale.
is_cached_NoExpiry(entry, t) == entry.present

\* PriceOracle._is_cached: whether the entry of a mint is a valid cache entry
\* at tick t.
is_cached(entry, t) ==
    /\ entry.present
    /\ ~(int_time(t) - entry.cached_time > PRICE_CACHE_TTL)

\* Fault variant: the oracle gives up at the first source that fails.
RECURSIVE fallback_StopsAtFirstFailure(_, _)
fallback_StopsAtFirstFailure(answers, i) ==
    IF i > Len(answers) THEN [info |-> NoPriceInfo, queried |-> Len(answers)]
    ELSE IF answers[i].kind = "raise" \/ query(answers[i]) = NoPriceInfo
         THEN [info |-> NoPriceInfo, queried |-> i]
         ELSE [info |-> query(answers[i]), queried |-> i]

\* PriceOracle.get_price, the loop of the fallback strategy from source i on:
\* the quote it returns and the number of sources it queried.
RECURSIVE fallback(_, _)
fallback(answers, i) ==
    IF i > Len(answers) THEN [info |-> NoPriceInfo, queried |-> Len(answers)]
    ELSE IF answers[i].kind = "raise" THEN fallback(answers, i + 1)
         ELSE LET price_info == query(answers[i])
              IN  IF price_info # NoPriceInfo
                  THEN [info |-> price_info, queried |-> i]
                  ELSE fallback(answers, i + 1)

\* PriceOracle.get_price, the single strategy: only the first source.
single(answers) ==
    IF answers[1].kind = "raise" THEN [info |-> NoPriceInfo, queried |-> 1]
    ELSE [info |-> query(answers[1]), queried |-> 1]

\* PriceOracle.get_price: the sources queried by the configured strategy.
query_sources(answers) ==
    IF PRICE_SOURCE_STRATEGY = "single" THEN single(answers)
    ELSE IF PRICE_SOURCE_STRATEGY = "fallback" THEN fallback(answers, 1)
         ELSE [info |-> NoPriceInfo, queried |-> 0]

NoPriceCall ==
    [called |-> FALSE, mint |-> NoMint, info |-> NoPriceInfo, hit |-> FALSE,
     queried |-> 0, had_entry |-> FALSE, age |-> 0,
     age_seconds |-> 0]

\* PriceOracle.get_price(mint), the sources answering as answers says.
GetPrice(mint, answers) ==
    LET entry == cache[mint]
        hit == is_cached(entry, oracle_now)
        r == query_sources(answers)
    IN  /\ cache' =
               IF hit THEN cache
               ELSE IF r.info # NoPriceInfo
                    THEN [cache EXCEPT ![mint] =
                             [present |-> TRUE, info |-> r.info,
                              cached_time |-> int_time(oracle_now),
                              stored_at |-> oracle_now]]
                    ELSE [cache EXCEPT ![mint] = NoCacheEntry]
        /\ ret_price' =
               [called |-> TRUE, mint |-> mint,
                info |-> IF hit THEN entry.info ELSE r.info,
                hit |-> hit,
                queried |-> IF hit THEN 0 ELSE r.queried,
                had_entry |-> entry.present,
                age |-> IF entry.present THEN oracle_now - entry.stored_at ELSE 0,
                age_seconds |-> IF entry.present
                                THEN int_time(oracle_now) - entry.cached_time
                                ELSE 0]
        /\ oracle_op' = "get_price"
        /\ UNCHANGED oracle_now

\* Time passes for the price oracle.
TickOracle ==
    /\ oracle_now < MaxOracleTime
    /\ oracle_now' = oracle_now + 1
    /\ oracle_op' = "tick"
    /\ UNCHANGED <<cache, ret_price>>

\* PriceOracle.__init__
InitOracle ==
    /\ oracle_now = 0
    /\ cache = [m \in Mints |-> NoCacheEntry]
    /\ oracle_op = "init"
    /\ ret_price = NoPriceCall

\* ------------------------------------------------------ the worker threads
Tracker == "TransactionTracker"
Updater == "AssetUpdater"
Workers == {Tracker, Updater}

\* Queue.put would block: only a queue with a maxsize above zero can be full.
put_blocks(queue) == QUEUE_MAXSIZE > 0 /\ Len(queue) >= QUEUE_MAXSIZE

\* Queue.put
put(queue, item) == Append(queue, item)

\* Fault variant: the wait for initialization does not look at the running
\* flag.
run_next_WaitsForInit(at, is_running, is_initialized) ==
    IF at = "wait_init"
    THEN IF ~is_initialized THEN "wait_init"
         ELSE IF ~is_running THEN "exited" ELSE "loop"
    ELSE IF is_running THEN "body" ELSE "exited"

\* run() of both workers, the tests it makes between iterations: where the
\* thread goes from the wait for initialization and from the head of the
\* main loop.
run_next(at, is_running, is_initialized) ==
    IF at = "wait_init"
    THEN IF ~is_initialized /\ is_running THEN "wait_init"
         ELSE IF ~is_running THEN "exited" ELSE "loop"
    ELSE IF is_running THEN "body" ELSE "exited"

\* Thread.start(): run() begins.
Start(w) ==
    /\ wpc[w] = "created"
    /\ wpc' = [wpc EXCEPT ![w] = "wait_init"]
    /\ UNCHANGED <<running, initialized, update_queue, published>>

\* initialize() of a worker, called by the orchestrator, ends.
Initialize(w) ==
    /\ ~initialized[w]
    /\ initialized' = [initialized EXCEPT ![w] = TRUE]
    /\ UNCHANGED <<running, wpc, update_queue, published>>

\* A worker tests its flags: in the wait for initialization or at the head
\* of the main loop.
RunStep(w) ==
    /\ wpc[w] \in {"wait_init", "loop"}
    /\ wpc' = [wpc EXCEPT ![w] = run_next(wpc[w], running[w], initialized[w])]
    /\ UNCHANGED <<running, initialized, update_queue, published>>

\* One iteration of TransactionTracker.run: _tick finds nothing to report,
\* or puts a notification on the queue, or raises.
TrackerTick ==
    /\ wpc[Tracker] = "body"
    /\ \E outcome \in {"idle", "updates_needed", "raise"} :
         IF outcome = "updates_needed"
         THEN /\ published < MaxPublishes
              /\ ~put_blocks(update_queue)
              /\ update_queue' = put(update_queue, [type |-> "transaction_update"])
              /\ published' = published + 1
              /\ wpc' = [wpc EXCEPT ![Tracker] = "sleep"]
         ELSE /\ wpc' = [wpc EXCEPT ![Tracker] =
                            IF outcome = "raise" THEN "error_sleep" ELSE "sleep"]
              /\ UNCHANGED <<update_queue, published>>
    /\ UNCHANGED <<running, initialized>>

\* One iteration of AssetUpdater.run: it takes the notification at the head
\* of the queue and handles it, or finds the queue empty after the timeout
\* and checks the periodic refresh; either may raise.
UpdaterIteration ==
    /\ wpc[Updater] = "body"
    /\ update_queue' = IF update_queue # <<>> THEN Tail(update_queue)
                       ELSE update_queue
    /\ \E raised \in BOOLEAN :
         wpc' = [wpc EXCEPT ![Updater] = IF raised THEN "error_sleep" ELSE "loop"]
    /\ UNCHANGED <<running, initialized, published>>

\* time.sleep at the end of an iteration returns.
Wake(w) ==
    /\ wpc[w] \in {"sleep", "error_sleep"}
    /\ wpc' = [wpc EXCEPT ![w] = "loop"]
    /\ UNCHANGED <<running, initialized, update_queue, published>>

\* Orchestrator.stop: stop() of the tracker, then stop() of the updater.
StopWorker(w) ==
    /\ running[w]
    /\ w = Updater => ~running[Tracker]
    /\ running' = [running EXCEPT ![w] = FALSE]
    /\ UNCHANGED <<initialized, wpc, update_queue, published>>

\* Orchestrator.__init__: both threads are constructed.
InitWorkers ==
    /\ running = [w \in Workers |-> TRUE]
    /\ initialized = [w \in Workers |-> FALSE]
    /\ wpc = [w \in Workers |-> "created"]
    /\ update_queue = <<>>
    /\ published = 0

\* ------------------------------------------- initialization of the assets
\* AssetUpdater.initialize, one round of its retry loop: update_from_chain()
\* succeeds or fails.
AssetSyncAttempt ==
    /\ ~initialized[Updater]
    /\ ~assets_synced
    /\ sync_attempts < ASSET_SYNC_MAX_RETRIES
    /\ sync_attempts' = sync_attempts + 1
    /\ \E success \in BOOLEAN : assets_synced' = success
    /\ UNCHANGED <<init_failure, workerVars>>

\* AssetUpdater.initialize, after the retry loop: with or without asset data
\* it sets self.initialized and returns; it raises nothing and returns
\* nothing.
AssetInitializeEnds ==
    /\ ~initialized[Updater]
    /\ assets_synced \/ sync_attempts = ASSET_SYNC_MAX_RETRIES
    /\ initialized' = [initialized EXCEPT ![Updater] = TRUE]
    /\ init_failure' = FALSE
    /\ UNCHANGED <<sync_attempts, assets_synced, running, wpc, update_queue,
                   published>>

\* AssetManager.__init__: no asset data yet.
InitAssets ==
    /\ sync_attempts = 0
    /\ assets_synced = FALSE
    /\ init_failure = FALSE

\* ------------------------------------------- the sweep over the positions
\* STOP_LOSS_PERCENT, TAKE_PROFIT_PERCENT and a position's
\* unrealized_pnl_percent are counted in 1/PercentUnit: -0.30 is -30.
PercentUnit == 100

\* PositionManager._recalculate_pnl: the unrealized_pnl_percent it stores on
\* a position.
unrealized_pnl_percent(cost_basis, current_price) ==
    IF cost_basis > 0
    THEN ((current_price - cost_basis) * 100 * PercentUnit) \div cost_basis
    ELSE 0

\* A position as the sweep reads it.
SweptPosition(mint, cost_basis, current_price, holding_duration) ==
    [mint |-> mint, amount |-> 100, cost_basis |-> cost_basis,
     current_price |-> current_price,
     unrealized_pnl_percent |-> unrealized_pnl_percent(cost_basis, current_price),
     holding_duration |-> holding_duration]

RiskAction(action_type, position) ==
    [action_type |-> action_type, mint |-> position.mint,
     suggested_amount |-> position.amount]

\* RiskController._check_stop_loss, _check_take_profit, _check_time_stop:
\* whether the check returns an action.
check_stop_loss(position) == position.unrealized_pnl_percent <= STOP_LOSS_PERCENT
check_take_profit(position) == position.unrealized_pnl_percent >= TAKE_PROFIT_PERCENT
check_time_stop(position) == position.holding_duration >= MAX_HOLD_TIME

\* Fault variant: a check that returns an action does not end the round, so
\* every check that is switched on and matches adds one.
check_position_AllMatches(position, enable_stop_loss, enable_take_profit) ==
    (IF enable_stop_loss /\ check_stop_loss(position)
     THEN <<RiskAction("STOP_LOSS", position)>> ELSE <<>>) \o
    (IF enable_take_profit /\ check_take_profit(position)
     THEN <<RiskAction("TAKE_PROFIT", position)>> ELSE <<>>) \o
    (IF enable_stop_loss /\ check_time_stop(position)
     THEN <<RiskAction("TIME_STOP", position)>> ELSE <<>>)

\* RiskController.check_all_positions, one round of its loop: the actions
\* appended for one position.
check_position(position, enable_stop_loss, enable_take_profit) ==
    IF enable_stop_loss /\ check_stop_loss(position)
    THEN <<RiskAction("STOP_LOSS", position)>>
    ELSE IF enable_take_profit /\ check_take_profit(position)
         THEN <<RiskAction("TAKE_PROFIT", position)>>
         ELSE IF enable_stop_loss /\ check_time_stop(position)
              THEN <<RiskAction("TIME_STOP", position)>>
              ELSE <<>>

\* RiskController.check_all_positions: the actions for the positions from
\* index i on.
RECURSIVE check_all_positions(_, _, _, _)
check_all_positions(swept, i, enable_stop_loss, enable_take_profit) ==
    IF ~enable_stop_loss /\ ~enable_take_profit THEN <<>>
    ELSE IF i > Len(swept) THEN <<>>
         ELSE check_position(swept[i], enable_stop_loss, enable_take_profit)
              \o check_all_positions(swept, i + 1, enable_stop_loss,
                                     enable_take_profit)

\* The controllers a sweep is made on: either switch on or off, paused or
\* not, and up to MaxSwept positions bought at 100, marked between half and
\* twice that, and held for an hour, for exactly MAX_HOLD_TIME or longer.
MintNames == <<"A", "B", "C">>
MarkPrices == {50, 70, 99, 100, 150, 200}
HoldingDurations == {3600, MAX_HOLD_TIME, 90000}
SweepInputs ==
    { [enable_stop_loss |-> sl, enable_take_profit |-> tp, is_paused |-> paused,
       positions |-> [i \in 1..n |->
                        SweptPosition(MintNames[i], 100, marks[i], held[i])]] :
        sl \in BOOLEAN, tp \in BOOLEAN, paused \in BOOLEAN,
        n \in 1..MaxSwept,
        marks \in [1..MaxSwept -> MarkPrices],
        held \in [1..MaxSwept -> HoldingDurations] }

\* RiskController.check_all_positions() is called and returns.
CheckAllPositions ==
    /\ ~sweep_done
    /\ sweep_done' = TRUE
    /\ ret_actions' = check_all_positions(sweep_in.positions, 1,
                                          sweep_in.enable_stop_loss,
                                          sweep_in.enable_take_profit)
    /\ UNCHANGED sweep_in

\* No sweep is under way: the switches as configured, no position.
InitSweep ==
    /\ sweep_in = [enable_stop_loss |-> FALSE, enable_take_profit |-> FALSE,
                   is_paused |-> FALSE, positions |-> <<>>]
    /\ sweep_done = FALSE
    /\ ret_actions = <<>>

\* ------------------------------------------------ the executor's ledger
\* Position.entry_time after PositionManager.add_position, called at
\* current_time: a new position is stamped, one that exists keeps its stamp.
\* Fault variant: every purchase stamps the position anew.
add_position_entry_time_Restamped(entry, pos, mint, amount, current_time) ==
    IF amount <= 0 THEN entry
    ELSE [entry EXCEPT ![mint] = current_time]

add_position_entry_time(entry, pos, mint, amount, current_time) ==
    IF amount <= 0 THEN entry
    ELSE IF HasPosition(pos, mint) THEN entry
         ELSE [entry EXCEPT ![mint] = current_time]

\* Position.entry_time after PositionManager.reduce_position: it goes with a
\* position sold in full and stays with one sold in part.
reduce_position_entry_time(entry, pos, mint, amount) ==
    IF ~HasPosition(pos, mint) \/ amount > pos[mint].amount THEN entry
    ELSE IF amount >= pos[mint].amount THEN [entry EXCEPT ![mint] = None]
         ELSE entry

\* VirtualExecutor.deposit, allowed being TradingConfig.ALLOW_VIRTUAL_DEPOSIT.
deposit(allowed, amount, bal) ==
    IF ~allowed THEN [ok |-> FALSE, balance |-> bal]
    ELSE IF amount <= 0 THEN [ok |-> FALSE, balance |-> bal]
         ELSE [ok |-> TRUE, balance |-> bal + amount]

\* Fault variant: a withdrawal is not compared with the balance.
withdraw_NoBalanceCheck(allowed, amount, bal) ==
    IF ~allowed THEN [ok |-> FALSE, balance |-> bal]
    ELSE IF amount <= 0 THEN [ok |-> FALSE, balance |-> bal]
         ELSE [ok |-> TRUE, balance |-> bal - amount]

\* VirtualExecutor.withdraw, allowed being
\* TradingConfig.ALLOW_VIRTUAL_WITHDRAWAL.
withdraw(allowed, amount, bal) ==
    IF ~allowed THEN [ok |-> FALSE, balance |-> bal]
    ELSE IF amount <= 0 THEN [ok |-> FALSE, balance |-> bal]
         ELSE IF amount > bal THEN [ok |-> FALSE, balance |-> bal]
              ELSE [ok |-> TRUE, balance |-> bal - amount]

\* ret_ledger before the first call.
NoLedgerCall ==
    [op |-> "none", ok |-> FALSE, amount |-> 0, realized_pnl |-> 0,
     balance_before |-> 0]

\* VirtualExecutor.execute at the time now: the trade, and the entry time of
\* the position it touches.
LedgerExecute(decision, price, bps) ==
    LET r == execute(decision, price, bps, balance, positions)
        mint == decision.token_mint
    IN  /\ r.success => Len(trades) < MaxTrades
        /\ balance' = r.balance
        /\ positions' = r.positions
        /\ entry_time' =
               IF ~r.success THEN entry_time
               ELSE IF r.action = "BUY"
                    THEN add_position_entry_time(entry_time, positions, mint,
                                                 decision.amount, now)
                    ELSE reduce_position_entry_time(entry_time, positions,
                                                    mint, decision.amount)
        /\ trades' = IF r.success THEN Append(trades, <<None, r.action>>)
                     ELSE trades
        /\ stats_max_balance' = update_max_balance(stats_max_balance, r)
        /\ ret_execution' =
               [called |-> TRUE, decision |-> decision, price |-> price,
                bps |-> bps, success |-> r.success,
                error_message |-> r.error_message,
                balance_before |-> balance, positions_before |-> positions,
                trades_before |-> trades]
        /\ ret_ledger' =
               [op |-> "execute", ok |-> r.success, amount |-> decision.amount,
                realized_pnl |-> r.pnl, balance_before |-> balance]
        /\ UNCHANGED cash_ops

\* VirtualExecutor.deposit(amount)
Deposit(allowed, amount) ==
    LET r == deposit(allowed, amount, balance)
    IN  /\ r.ok => cash_ops < MaxCashOps
        /\ balance' = r.balance
        /\ cash_ops' = IF r.ok THEN cash_ops + 1 ELSE cash_ops
        /\ ret_ledger' =
               [op |-> "deposit", ok |-> r.ok, amount |-> amount,
                realized_pnl |-> 0, balance_before |-> balance]

\* VirtualExecutor.withdraw(amount)
Withdraw(allowed, amount) ==
    LET r == withdraw(allowed, amount, balance)
    IN  /\ r.ok => cash_ops < MaxCashOps
        /\ balance' = r.balance
        /\ cash_ops' = IF r.ok THEN cash_ops + 1 ELSE cash_ops
        /\ ret_ledger' =
               [op |-> "withdraw", ok |-> r.ok, amount |-> amount,
                realized_pnl |-> 0, balance_before |-> balance]

InitLedger ==
    /\ entry_time = [m \in Mints |-> None]
    /\ cash_ops = 0
    /\ ret_ledger = NoLedgerCall

\* ------------------------------------------------- the session and its reset
\* TradingCoordinator.__init__ and reset_session: the counters at zero.
NoSignals ==
    [total_signals |-> 0, executed_trades |-> 0, skipped_trades |-> 0,
     failed_trades |-> 0]

\* TradingCoordinator.process_signal: the counters after a signal for which
\* it returned r.
count_signal(stats, r) ==
    [total_signals |-> stats.total_signals + 1,
     executed_trades |-> stats.executed_trades + (IF r.success THEN 1 ELSE 0),
     skipped_trades |-> stats.skipped_trades +
                        (IF r.stage \in {"risk check", "strategy"} THEN 1 ELSE 0),
     failed_trades |-> stats.failed_trades +
                       (IF r.stage = "execution" THEN 1 ELSE 0)]

\* TradingCoordinator.process_signal(signal), the oracle quoting price and
\* the executor drawing a slippage of bps.
ProcessSignalCounted(signal, price, bps) ==
    LET r == process_signal(signal, price, bps)
    IN  /\ signal_stats.total_signals < MaxSignals
        /\ r.success => Len(trades) < MaxTrades
        /\ balance' = r.balance
        /\ positions' = r.positions
        /\ trades' = IF r.success THEN Append(trades, <<None, r.action>>)
                     ELSE trades
        /\ consecutive_losses' = r.risk.consecutive_losses
        /\ is_paused' = r.risk.is_paused
        /\ pause_until' = r.risk.pause_until
        /\ pause_reason' = r.risk.pause_reason
        /\ stored_risk' =
               IF r.recorded
               THEN SavedRiskState(r.risk.consecutive_losses, r.risk.is_paused,
                                   r.risk.pause_until, r.risk.pause_reason)
               ELSE stored_risk
        /\ streak' = IF r.recorded THEN StreakAfterResult(r.risk, r.is_profit)
                     ELSE streak
        /\ loss_calls' = IF ~r.recorded THEN loss_calls
                         ELSE IF r.is_profit THEN 0 ELSE loss_calls + 1
        /\ ret_signal' = [success |-> r.success, stage |-> r.stage]
        /\ stats_max_balance' = update_max_balance(stats_max_balance, r)
        /\ risk_op' = "process_signal"
        /\ ret_allowed' = r.allowed
        /\ signal_stats' = count_signal(signal_stats, r)
        /\ UNCHANGED <<ret_reason, ret_resume, session_id>>

\* Fault variant: the reset builds the position manager and the risk
\* controller anew on the new session, which holds neither positions nor a
\* risk state.
ResetSession_ReloadsState ==
    /\ session_id < MaxResets
    /\ session_id' = session_id + 1
    /\ balance' = INITIAL_BALANCE
    /\ stats_max_balance' = INITIAL_BALANCE
    /\ stored_risk' = NoRiskState
    /\ signal_stats' = NoSignals
    /\ positions' = NoPositions
    /\ consecutive_losses' = 0
    /\ is_paused' = FALSE
    /\ pause_until' = None
    /\ pause_reason' = ""
    /\ UNCHANGED <<trades, risk_op, ret_allowed, ret_reason, ret_resume, streak,
                   loss_calls, ret_signal>>

\* TradingCoordinator.reset_session: the storage archives the session and
\* begins a new one, whose metadata holds the initial balance and no risk
\* state; the executor takes the initial balance and the new session's id;
\* the coordinator's counters go to zero.  The position manager and the risk
\* controller are not told.
ResetSession ==
    /\ session_id < MaxResets
    /\ session_id' = session_id + 1
    /\ balance' = INITIAL_BALANCE
    /\ stats_max_balance' = INITIAL_BALANCE
    /\ stored_risk' = NoRiskState
    /\ signal_stats' = NoSignals
    /\ UNCHANGED <<positions, trades, consecutive_losses, is_paused,
                   pause_until, pause_reason, risk_op, ret_allowed, ret_reason,
                   ret_resume, streak, loss_calls, ret_signal>>

InitSession ==
    /\ signal_stats = NoSignals
    /\ session_id = 0

\* ------------------------------------------------------ the polling strategy
\* Fault variant: a detection during a burst adds the duration to the old
\* deadline.
BurstDeadline_Additive(t, old_end) ==
    IF old_end = None THEN t + BURST_DURATION ELSE old_end + BURST_DURATION

\* PollingStrategy.on_transaction_detected: the deadline it stores at time t,
\* old_end being the one stored before.
BurstDeadline(t, old_end) == t + BURST_DURATION

\* PollingStrategy.on_transaction_detected
OnTransactionDetected ==
    /\ detections < MaxDetections
    /\ detections' = detections + 1
    /\ mode' = "BURST"
    /\ burst_end_time' = BurstDeadline(clock, burst_end_time)
    /\ sched_op' = "on_transaction_detected"
    /\ UNCHANGED <<clock, ret_interval>>

\* Fault variant: get_interval never leaves the burst.
GetInterval_NoExpiry ==
    /\ ret_interval' = IF mode = "BURST" THEN BURST_INTERVAL ELSE IDLE_INTERVAL
    /\ sched_op' = "get_interval"
    /\ UNCHANGED <<clock, mode, burst_end_time, detections>>

\* PollingStrategy.get_interval, with _switch_to_idle
GetInterval ==
    /\ IF mode = "BURST"
       THEN IF clock >= burst_end_time
            THEN /\ mode' = "IDLE"
                 /\ burst_end_time' = None
                 /\ ret_interval' = IDLE_INTERVAL
            ELSE /\ ret_interval' = BURST_INTERVAL
                 /\ UNCHANGED <<mode, burst_end_time>>
       ELSE /\ ret_interval' = IDLE_INTERVAL
            /\ UNCHANGED <<mode, burst_end_time>>
    /\ sched_op' = "get_interval"
    /\ UNCHANGED <<clock, detections>>

\* Time passes for the polling strategy; the clock runs on while a deadline
\* lies ahead.
TickClock ==
    /\ \/ clock + ClockStep <= MaxClock
       \/ burst_end_time # None /\ clock < burst_end_time
    /\ clock' = clock + ClockStep
    /\ sched_op' = "tick"
    /\ UNCHANGED <<mode, burst_end_time, ret_interval, detections>>

\* PollingStrategy.__init__
InitSched ==
    /\ clock = 0
    /\ mode = "IDLE"
    /\ burst_end_time = None
    /\ sched_op = "init"
    /\ ret_interval = None
    /\ detections = 0

Init ==
    /\ InitSched
    /\ InitOracle
    /\ InitParser
    /\ InitWorkers
    /\ failed = {}
    /\ InitAssets
    /\ InitSweep
    /\ InitLedger
    /\ pause_txs = {}
    /\ InitSession
    /\ chain = <<>>
    /\ InitPoller
    /\ now = 0
    /\ InitRisk
    /\ InitPipeline

Next ==
    \/ /\ Len(chain) < MaxTxs
       /\ \E shape \in TxShapes : NewTransaction(shape)
       /\ UNCHANGED <<now, riskVars, pipeVars, otherVars>>
    \/ Scan
    \/ ProcessTx
    \/ Crash
    \/ Restart

\* The trading system of main.py: the wallet trades, the scan loop runs, and
\* the process may be killed and started again.
Spec == Init /\ [][Next]_vars

\* The risk controller on its own, driven by any sequence of its operations.
SpecRisk == Init /\ [][NextRisk]_vars

\* ------------------------------------------------- the executor on its own
\* The decisions the executor is called with: a decision not to trade, and
\* decisions to buy, to sell or to do something else with an amount of A.
Amounts == {50, 200, 400}
Decisions ==
    {SkipDecision("no price")} \cup
    { [should_trade |-> TRUE, action |-> a, token_mint |-> m, amount |-> n,
       reason |-> "follow"] : a \in {"BUY", "SELL", "HOLD"}, m \in Mints,
                              n \in Amounts }

\* VirtualExecutor.execute(decision, price_info), the slippage being bps.
Execute(decision, price, bps) ==
    LET r == execute(decision, price, bps, balance, positions)
    IN  /\ r.success => Len(trades) < MaxTrades
        /\ balance' = r.balance
        /\ positions' = r.positions
        /\ trades' = IF r.success THEN Append(trades, <<None, r.action>>)
                     ELSE trades
        /\ stats_max_balance' = update_max_balance(stats_max_balance, r)
        /\ ret_execution' =
               [called |-> TRUE, decision |-> decision, price |-> price,
                bps |-> bps, success |-> r.success,
                error_message |-> r.error_message,
                balance_before |-> balance, positions_before |-> positions,
                trades_before |-> trades]
        /\ UNCHANGED <<chain, pollVars, now, riskVars, pc, batch, batch_pos,
                       tx_log, delivered, processed, crashes, passes,
                       first_pass, ret_signal, otherVars>>

NextExec ==
    \E decision \in Decisions : \E price \in Prices : \E bps \in SlippageBps :
        Execute(decision, price, bps)

\* The executor called with any decision at any price.
SpecExec == Init /\ [][NextExec]_vars

\* --------------------------------------------------- a batch handled twice
\* The signal loop of _scan_and_process is entered with the batch: it is saved
\* to the log and then handled transaction by transaction.
BeginPass ==
    /\ pc = "idle"
    /\ passes < 2
    /\ chain # <<>>
    /\ passes' = passes + 1
    /\ first_pass' = [balance |-> balance, positions |-> positions,
                      trades |-> trades]
    /\ batch' = chain
    /\ batch_pos' = 1
    /\ pc' = "trade"
    /\ tx_log' = process_batch(tx_log, chain, 1)
    /\ UNCHANGED <<chain, pollVars, now, riskVars, balance, positions, trades,
                   delivered, processed, crashes, ret_signal, stats_max_balance,
                   ret_execution,
                   otherVars>>

NextReplay ==
    \/ /\ Len(chain) < MaxBatch
       /\ passes = 0
       /\ \E shape \in TxShapes : NewTransaction(shape)
       /\ UNCHANGED <<now, riskVars, pipeVars, otherVars>>
    \/ BeginPass
    \/ ProcessTx

\* One batch of transactions, oldest first, put through the signal loop twice.
SpecReplay == Init /\ [][NextReplay]_vars

\* ------------------------------------- a system started on a stored session
\* What an earlier run of the system left in storage: the balance, the
\* positions, the risk state and the highest balance of the statistics.
\* Either nothing; or a session that holds 100 tokens of A bought for 10050
\* and is one loss short of the limit; or that session paused by the loss
\* limit; or a session that followed four buys of A at 300 with the highest
\* slippage (33, 28, 24 and 20 tokens for 14850, 12600, 10800 and 9000).
StoredSessions ==
    { [balance |-> 0, positions |-> NoPositions, risk |-> NoRiskState,
       max_balance |-> INITIAL_BALANCE],
      [balance |-> 89950,
       positions |-> [m \in Mints |-> [held |-> TRUE, amount |-> 100,
                                       cost_basis |-> 100500,
                                       total_cost |-> 10050,
                                       current_price |-> 100500]],
       risk |-> SavedRiskState(MAX_CONSECUTIVE_LOSSES - 1, FALSE, None, ""),
       max_balance |-> INITIAL_BALANCE],
      [balance |-> 89950,
       positions |-> [m \in Mints |-> [held |-> TRUE, amount |-> 100,
                                       cost_basis |-> 100500,
                                       total_cost |-> 10050,
                                       current_price |-> 100500]],
       risk |-> SavedRiskState(MAX_CONSECUTIVE_LOSSES, TRUE,
                               STOP_AFTER_TRIGGER_HOURS, REASON_LOSSES),
       max_balance |-> INITIAL_BALANCE],
      [balance |-> 52750,
       positions |-> [m \in Mints |-> [held |-> TRUE, amount |-> 105,
                                       cost_basis |-> 450000,
                                       total_cost |-> 47250,
                                       current_price |-> 450000]],
       risk |-> NoRiskState,
       max_balance |-> INITIAL_BALANCE] }

\* VirtualTradingSystem.__init__ on a stored session: the executor loads the
\* balance, the position manager the positions, the risk controller its state.
InitStored ==
    /\ InitSched
    /\ InitOracle
    /\ InitParser
    /\ InitWorkers
    /\ failed = {}
    /\ InitAssets
    /\ InitSweep
    /\ InitLedger
    /\ pause_txs = {}
    /\ InitSession
    /\ chain = <<>>
    /\ InitPoller
    /\ now = 0
    /\ \E session \in StoredSessions :
         LET r == load_risk_state(session.risk)
         IN  /\ balance = load_balance(session.balance)
             /\ stats_max_balance = session.max_balance
             /\ ret_execution = NoExecution
             /\ positions = session.positions
             /\ stored_risk = session.risk
             /\ consecutive_losses = r.consecutive_losses
             /\ is_paused = r.is_paused
             /\ pause_until = r.pause_until
             /\ pause_reason = r.pause_reason
             /\ streak = StreakAfter(r.is_paused, r.consecutive_losses, -1)
             /\ loss_calls = r.consecutive_losses
             /\ first_pass = [balance |-> load_balance(session.balance),
                              positions |-> session.positions, trades |-> <<>>]
    /\ risk_op = "init"
    /\ ret_allowed = TRUE
    /\ ret_reason = ""
    /\ ret_resume = FALSE
    /\ pc = "idle"
    /\ batch = <<>>
    /\ batch_pos = 1
    /\ tx_log = <<>>
    /\ trades = <<>>
    /\ delivered = {}
    /\ processed = {}
    /\ crashes = 0
    /\ passes = 0
    /\ ret_signal = [success |-> FALSE, stage |-> ""]

NextStored ==
    \/ /\ Len(chain) < MaxTxs
       /\ \E shape \in TxShapes : NewTransaction(shape)
       /\ UNCHANGED <<now, riskVars, pipeVars, otherVars>>
    \/ Scan
    \/ ProcessTx
    \/ /\ Tick
       /\ UNCHANGED <<chain, pollVars, riskVars, pipeVars, otherVars>>

\* The scan loop of main.py started on a stored session, with time passing.
SpecStored == InitStored /\ [][NextStored]_vars

\* -------------------------------------------- the scan loop with failures
NextFaults ==
    \/ /\ Len(chain) < MaxTxs
       /\ \E shape \in TxShapes : NewTransaction(shape)
       /\ UNCHANGED <<now, riskVars, pipeVars, otherVars>>
    \/ Scan
    \/ ScanSaveFails
    \/ ProcessTx
    \/ ProcessTxFails

\* The scan loop, any step of a scan failing on any transaction.
SpecFaults == Init /\ [][NextFaults]_vars

\* ------------------------------------------------ the worker threads alone
restOfWorkers == <<chain, pollVars, now, riskVars, pipeVars, schedVars,
                   oracleVars, parserVars, faultVars,
                   extraVars>>

NextWorkers ==
    \/ /\ \E w \in Workers : Start(w)
       /\ UNCHANGED restOfWorkers
    \/ /\ \E w \in Workers : Initialize(w)
       /\ UNCHANGED restOfWorkers
    \/ /\ \E w \in Workers : RunStep(w)
       /\ UNCHANGED restOfWorkers
    \/ /\ TrackerTick
       /\ UNCHANGED restOfWorkers
    \/ /\ UpdaterIteration
       /\ UNCHANGED restOfWorkers
    \/ /\ \E w \in Workers : Wake(w)
       /\ UNCHANGED restOfWorkers
    \/ /\ \E w \in Workers : StopWorker(w)
       /\ UNCHANGED restOfWorkers

\* The two threads, started, initialized and stopped at any time.
SpecWorkers == Init /\ [][NextWorkers]_vars

\* The same, every thread that can take a step eventually taking one: the
\* tests of run(), the iterations and the sleeps all return.
SpecWorkersLive ==
    /\ SpecWorkers
    /\ \A w \in Workers :
         /\ WF_vars(RunStep(w) /\ UNCHANGED restOfWorkers)
         /\ WF_vars(Wake(w) /\ UNCHANGED restOfWorkers)
    /\ WF_vars(TrackerTick /\ UNCHANGED restOfWorkers)
    /\ WF_vars(UpdaterIteration /\ UNCHANGED restOfWorkers)

\* --------------------------------------------- the start of the orchestrator
restOfAssets == <<chain, pollVars, now, riskVars, pipeVars, schedVars,
                  oracleVars, parserVars, faultVars, sweepVars, ledgerVars,
                  pauseVars, sessionVars>>

NextAssetInit ==
    \/ /\ AssetSyncAttempt
       /\ UNCHANGED restOfAssets
    \/ /\ AssetInitializeEnds
       /\ UNCHANGED restOfAssets
    \/ /\ Initialize(Tracker)
       /\ UNCHANGED restOfWorkers
    \/ /\ \E w \in Workers : initialized[Updater] /\ Start(w)
       /\ UNCHANGED restOfWorkers
    \/ /\ \E w \in Workers : RunStep(w)
       /\ UNCHANGED restOfWorkers
    \/ /\ UpdaterIteration
       /\ UNCHANGED restOfWorkers
    \/ /\ TrackerTick
       /\ UNCHANGED restOfWorkers
    \/ /\ \E w \in Workers : Wake(w)
       /\ UNCHANGED restOfWorkers

\* Orchestrator.run: the assets are initialized with retries, the anchor is
\* initialized, then the threads are started.
SpecAssetInit == Init /\ [][NextAssetInit]_vars

\* -------------------------------------------------------- the sweep alone
\* Any controller of SweepInputs is about to make a sweep.
InitSweepInputs ==
    /\ InitSched
    /\ InitOracle
    /\ InitParser
    /\ InitWorkers
    /\ failed = {}
    /\ InitAssets
    /\ InitLedger
    /\ pause_txs = {}
    /\ InitSession
    /\ chain = <<>>
    /\ InitPoller
    /\ now = 0
    /\ InitRisk
    /\ InitPipeline
    /\ sweep_in \in SweepInputs
    /\ sweep_done = FALSE
    /\ ret_actions = <<>>

NextSweep ==
    /\ CheckAllPositions
    /\ UNCHANGED <<chain, pollVars, now, riskVars, pipeVars, schedVars,
                   oracleVars, parserVars, workerVars, faultVars, assetVars,
                   ledgerVars, pauseVars, sessionVars>>

SpecSweep == InitSweepInputs /\ [][NextSweep]_vars

\* ------------------------------------------------- the ledger on its own
\* The trades the ledger is driven with: purchases and sales of 40 or 100
\* tokens, quoted at 1.00 USD and filled with a slippage of 200 basis points
\* or quoted at 1.50 USD and filled with 100, which _calculate_slippage can
\* draw from its range.
LedgerAmounts == {40, 100}
LedgerQuotes == {[price |-> 100, bps |-> 200], [price |-> 150, bps |-> 100]}
LedgerDecisions ==
    { [should_trade |-> TRUE, action |-> a, token_mint |-> m, amount |-> n,
       reason |-> "follow"] : a \in {"BUY", "SELL"}, m \in Mints,
                              n \in LedgerAmounts }

\* The amounts deposited and withdrawn, in cents.
CashAmounts == {5000, 95000}

restOfLedger == <<chain, pollVars, riskVars, pc, batch, batch_pos, tx_log,
                  delivered, processed, crashes, passes, first_pass, ret_signal,
                  schedVars, oracleVars, parserVars, workerVars, faultVars,
                  assetVars, sweepVars, pauseVars, sessionVars>>

\* Deposits are allowed by the configuration; withdrawals are not as it is
\* shipped, and the ledger is run with that switch on and off.
NextLedger ==
    \/ /\ \E decision \in LedgerDecisions : \E quote \in LedgerQuotes :
             LedgerExecute(decision, quote.price, quote.bps)
       /\ UNCHANGED <<now, restOfLedger>>
    \/ /\ \E amount \in CashAmounts : Deposit(ALLOW_VIRTUAL_DEPOSIT, amount)
       /\ UNCHANGED <<now, positions, trades, stats_max_balance, ret_execution,
                      entry_time, restOfLedger>>
    \/ /\ \E allowed \in BOOLEAN : \E amount \in CashAmounts :
             Withdraw(allowed, amount)
       /\ UNCHANGED <<now, positions, trades, stats_max_balance, ret_execution,
                      entry_time, restOfLedger>>
    \/ /\ now + TickHours <= MaxLedgerTime
       /\ Tick
       /\ UNCHANGED <<balance, positions, trades, stats_max_balance,
                      ret_execution, ledgerVars, restOfLedger>>

\* Trades, deposits and withdrawals in any order, as time goes by.
SpecLedger == Init /\ [][NextLedger]_vars

\* ------------------------------------------------- a pause and its end
\* The wallet makes a transaction; one made while the controller is paused
\* is noted as such.
NewTransactionNoted(shape) ==
    /\ NewTransaction(shape)
    /\ pause_txs' = IF is_paused THEN pause_txs \cup {Len(chain) + 1}
                    ELSE pause_txs

\* What poll(limit) returns when the source answers with its whole window.
poll_answered(limit) ==
    poll(last_known_sig, Newest(Min(limit, Len(chain))), limit)

\* A scan in which the source answers the request in full.
ScanAnswered ==
    /\ Scan
    /\ check_trading_allowed(is_paused, pause_until, now).allowed =>
          /\ last_known_sig' = poll_answered(SCAN_LIMIT).last_known_sig
          /\ batch' = Reverse(poll_answered(SCAN_LIMIT).new_txs)

restOfPause == <<schedVars, oracleVars, parserVars, workerVars, faultVars,
                 assetVars, sweepVars, ledgerVars, sessionVars>>

NextPause ==
    \/ /\ Len(chain) < MaxTxs
       /\ \E shape \in TxShapes : NewTransactionNoted(shape)
       /\ UNCHANGED <<now, riskVars, pipeVars, restOfPause>>
    \/ ScanAnswered
    \/ ProcessTx
    \/ /\ ResumeTrading
       /\ UNCHANGED <<chain, pollVars, now, pipeVars, otherVars>>
    \/ /\ Tick
       /\ UNCHANGED <<chain, pollVars, riskVars, pipeVars, otherVars>>

\* The scan loop of main.py started on a stored session with a source that
\* answers in full, the operator resuming trading when it is paused.
SpecPause == InitStored /\ [][NextPause]_vars

\* ------------------------------------------------ sessions and their reset
\* The signals the coordinator is handed.
SessionSignals ==
    { [signature |-> None, action |-> a, token_mint |-> m, amount |-> 5] :
          a \in {"BUY", "SELL"}, m \in Mints }

restOfSession == <<chain, pollVars, now, pc, batch, batch_pos, tx_log,
                   delivered, processed, crashes, passes, first_pass,
                   ret_execution, schedVars, oracleVars, parserVars, workerVars,
                   faultVars, assetVars, sweepVars, ledgerVars, pauseVars>>

NextSession ==
    \/ /\ \E signal \in SessionSignals : \E price \in Prices :
             \E bps \in SlippageBps : ProcessSignalCounted(signal, price, bps)
       /\ UNCHANGED restOfSession
    \/ /\ ResetSession
       /\ UNCHANGED restOfSession

\* The coordinator started on a stored session, handed signals, and reset.
SpecSession == InitStored /\ [][NextSession]_vars

\* ------------------------------------------------------- the parser alone
\* Any transaction of TxInputs is about to be parsed.
InitParse ==
    /\ InitSched
    /\ InitOracle
    /\ InitWorkers
    /\ failed = {}
    /\ InitAssets
    /\ InitSweep
    /\ InitLedger
    /\ pause_txs = {}
    /\ InitSession
    /\ chain = <<>>
    /\ InitPoller
    /\ now = 0
    /\ InitRisk
    /\ InitPipeline
    /\ parse_tx \in TxInputs
    /\ parse_done = FALSE
    /\ ret_signals = <<>>

NextParse ==
    /\ ParseTx
    /\ UNCHANGED <<chain, pollVars, now, riskVars, pipeVars, schedVars,
                   oracleVars, workerVars, faultVars,
                   extraVars>>

SpecParse == InitParse /\ [][NextParse]_vars

\* --------------------------------------------------- the price oracle alone
NextOracle ==
    \/ /\ \E mint \in Mints : \E answers \in [1..NumSources -> SourceAnswers] :
             GetPrice(mint, answers)
       /\ UNCHANGED <<chain, pollVars, now, riskVars, pipeVars, schedVars,
                      parserVars, workerVars, faultVars,
                   extraVars>>
    \/ /\ TickOracle
       /\ UNCHANGED <<chain, pollVars, now, riskVars, pipeVars, schedVars,
                      parserVars, workerVars, faultVars,
                   extraVars>>

\* The price oracle asked for a price at any time, its sources answering in
\* any way.
SpecOracle == Init /\ [][NextOracle]_vars

\* ----------------------------------------------- the polling strategy alone
NextSched ==
    \/ /\ OnTransactionDetected
       /\ UNCHANGED <<chain, pollVars, now, riskVars, pipeVars, oracleVars,
                      parserVars, workerVars, faultVars,
                   extraVars>>
    \/ /\ GetInterval
       /\ UNCHANGED <<chain, pollVars, now, riskVars, pipeVars, oracleVars,
                      parserVars, workerVars, faultVars,
                   extraVars>>
    \/ /\ TickClock
       /\ UNCHANGED <<chain, pollVars, now, riskVars, pipeVars, oracleVars,
                      parserVars, workerVars, faultVars,
                   extraVars>>

\* The polling strategy told of detections and asked for its interval at any
\* time.
SpecSched == Init /\ [][NextSched]_vars

\* The tracker's loop asks for the interval in every round, and time passes.
SpecSchedLive ==
    /\ Init
    /\ [][NextSched]_vars
    /\ WF_vars(GetInterval /\ UNCHANGED <<chain, pollVars, now, riskVars,
                                          pipeVars, oracleVars, parserVars,
                                          workerVars, faultVars,
                   extraVars>>)
    /\ WF_vars(TickClock /\ UNCHANGED <<chain, pollVars, now, riskVars,
                                        pipeVars, oracleVars, parserVars,
                                          workerVars, faultVars,
                   extraVars>>)

\* ------------------------------------------------------------ the poller alone
NextPoll ==
    \/ /\ NewTransaction(TransferTx)
       /\ UNCHANGED <<now, riskVars, pipeVars, otherVars>>
    \/ /\ Poll
       /\ UNCHANGED <<now, riskVars, pipeVars, otherVars>>

\* The poller on its own, polled at any time with any limit.
SpecPoll == Init /\ [][NextPoll]_vars

\* ===================================================================
\* Properties of the poller (checked under SpecPoll)
\* ===================================================================
Polled == poll_count > 0

\* Position of signature a in a fetched list that holds it.
IndexOf(txs, a) == CHOOSE i \in 1..Len(txs) : txs[i].signature = a

\* C3: after a successful poll() made with a stored anchor, gap_detected is
\* true exactly when the previous anchor is not among the transactions the
\* source returned, also when the source returned fewer than `limit` items.
C3_GapIffAnchorAbsent ==
    (Polled /\ prev_anchor # None /\ fetched # <<>>) =>
        (ret_gap <=> prev_anchor \notin Signatures(fetched))

\* C4: a poll() never moves the anchor backward: afterwards the anchor is the
\* transaction it was before or one that is newer in chain order.
C4_AnchorNeverMovesBackward ==
    Polled => last_known_sig >= prev_anchor

C4_Witness ==
    /\ poll_count = 2
    /\ prev_anchor # None
    /\ last_known_sig > prev_anchor
    /\ Len(fetched) > Len(ret_new)

\* C5: the first poll() with no stored anchor and a non-empty fetch adopts the
\* newest fetched transaction as the anchor and returns ([], false).
C5_FirstPollAdoptsNewest ==
    (Polled /\ prev_anchor = None /\ fetched # <<>>) =>
        /\ ret_new = <<>>
        /\ ret_gap = FALSE
        /\ last_known_sig = fetched[1].signature

C5_Witness ==
    /\ Polled
    /\ prev_anchor = None
    /\ Len(fetched) >= 2
    /\ last_known_sig = Len(chain)

\* C6: when the stored anchor is in the fetched list, poll() returns exactly
\* the transactions that precede it there, newest first, with no gap, and a
\* non-empty result moves the anchor to its first element.
C6_FoundAnchorReturnsPrefix ==
    (Polled /\ prev_anchor # None /\ prev_anchor \in Signatures(fetched)) =>
        /\ ret_new = SubSeq(fetched, 1, IndexOf(fetched, prev_anchor) - 1)
        /\ ret_gap = FALSE
        /\ (ret_new # <<>> => last_known_sig = ret_new[1].signature)

C6_Witness ==
    /\ Polled
    /\ prev_anchor # None
    /\ prev_anchor \in Signatures(fetched)
    /\ Len(ret_new) >= 2
    /\ Len(fetched) > Len(ret_new) + 1

\* C7: when the stored anchor is not among the `limit` fetched items, poll()
\* reports a gap, returns all of them as new and moves the anchor to the
\* newest of them.
C7_GapReturnsAllFetched ==
    (Polled /\ prev_anchor # None /\ Len(fetched) = poll_limit
        /\ prev_anchor \notin Signatures(fetched)) =>
        /\ ret_gap = TRUE
        /\ ret_new = fetched
        /\ last_known_sig = fetched[1].signature

C7_Witness ==
    /\ Polled
    /\ prev_anchor # None
    /\ Len(fetched) = poll_limit
    /\ Len(fetched) >= 2
    /\ prev_anchor \notin Signatures(fetched)

\* C8 as stated: a poll() made when no transaction occurred since the previous
\* poll() returns ([], false) and leaves the anchor where it was.
C8_RepollIsIdempotent ==
    repoll =>
        /\ ret_new = <<>>
        /\ ret_gap = FALSE
        /\ last_known_sig = prev_anchor

\* C8 as amended: the same, for a previous poll() whose fetch was not empty.
C8_RepollAfterFetchIsIdempotent ==
    (repoll /\ prev_fetch_len > 0) =>
        /\ ret_new = <<>>
        /\ ret_gap = FALSE
        /\ last_known_sig = prev_anchor

C8_Witness ==
    /\ repoll
    /\ prev_fetch_len > 0
    /\ Len(fetched) >= 2
    /\ prev_anchor # None

\* ------------------------------------------------------------------------
\* Properties of the risk controller (checked under SpecRisk)

C10_PauseAtExactlyTheLimit ==
    risk_op = "check_trading_allowed" =>
        /\ (streak = MAX_CONSECUTIVE_LOSSES => ~ret_allowed)
        /\ (streak >= 0 /\ streak < MAX_CONSECUTIVE_LOSSES => ret_allowed)

\* C10 witness: the check after the limit-th loss in a row is refused for the
\* consecutive-loss reason.
C10_Witness ==
    /\ risk_op = "check_trading_allowed"
    /\ streak = MAX_CONSECUTIVE_LOSSES
    /\ ~ret_allowed
    /\ pause_reason = REASON_LOSSES

\* C10 witness of the other half: one loss short of the limit, still allowed.
C10_WitnessBelow ==
    /\ risk_op = "check_trading_allowed"
    /\ streak = MAX_CONSECUTIVE_LOSSES - 1
    /\ ret_allowed

\* C11: the loss counter equals the number of record_trade_result(False)
\* calls made since the most recent record_trade_result(True) or successful
\* resume_trading(): a profit resets it to zero, each loss adds one.
C11_CounterCountsLossesSinceReset == consecutive_losses = loss_calls

\* C11 witness: three losses in a row have been counted, one by one.
C11_Witness ==
    /\ risk_op = "record_loss"
    /\ consecutive_losses = 3
    /\ loss_calls = 3
    /\ ~is_paused

\* C12: in every state of the controller, a state loaded from storage at
\* start-up included, paused implies that pause_until is set and that
\* pause_reason is not empty.
C12_PausedHasDeadlineAndReason ==
    is_paused => (pause_until # None /\ pause_reason # "")

\* C12 witness: a controller constructed from storage starts paused, with the
\* deadline and the reason of the pause that was stored.
C12_Witness ==
    /\ risk_op = "init"
    /\ is_paused
    /\ pause_until # None
    /\ pause_reason = REASON_DRAWDOWN

\* A step in which resume_trading() is called.
ResumeStep == risk_op' = "resume_trading" /\ now' = now

\* C13: resume_trading() called while paused leaves the controller not
\* paused, with no pause_until and a zero loss counter, and returns true;
\* called while not paused it returns false and changes no risk state, in
\* memory or in storage.
C13_ResumeTrading ==
    [][ResumeStep =>
         IF is_paused
         THEN /\ ~is_paused'
              /\ pause_until' = None
              /\ consecutive_losses' = 0
              /\ ret_resume'
         ELSE /\ ~ret_resume'
              /\ UNCHANGED <<consecutive_losses, is_paused, pause_until,
                             pause_reason, stored_risk>>]_vars

\* C13 witness: a pause reached with a non-zero loss counter was resumed.
C13_Witness ==
    /\ risk_op = "resume_trading"
    /\ ret_resume
    /\ ~is_paused
    /\ pause_until = None
    /\ consecutive_losses = 0
    /\ pause_reason = REASON_LOSSES

\* C16: the risk state survives restarts: after any sequence of controller
\* operations, a controller constructed from storage would have the same
\* consecutive_losses, is_paused, pause_until and pause_reason as the
\* controller that executed the sequence.
C16_StoredRiskStateIsCurrent == load_risk_state(stored_risk) = CurrentRisk

\* A controller constructed from storage that came up paused by the loss
\* limit, with the deadline of a pause triggered twelve hours into the run.
C16_Witness ==
    /\ risk_op = "init"
    /\ is_paused
    /\ consecutive_losses = MAX_CONSECUTIVE_LOSSES
    /\ pause_reason = REASON_LOSSES
    /\ pause_until = TickHours + STOP_AFTER_TRIGGER_HOURS
    /\ stored_risk.saved

\* ------------------------------------------------------------------------
\* Properties of the executor (checked under SpecExec)

\* The last call of execute: its decision, what it asked to trade and what
\* the wallet held of it before the call.
LastDecision == ret_execution.decision
HeldBefore == ret_execution.positions_before[LastDecision.token_mint].amount

\* executed_price * quantity of the last call, had it been a buy.
CostOfLastCall ==
    (ret_execution.price * (10000 + ret_execution.bps) * LastDecision.amount)
        \div 10000

\* The last call asked for a buy the balance could not pay, or for a sale of
\* more than was held.
LastCallUnaffordable ==
    /\ ret_execution.called
    /\ LastDecision.should_trade
    /\ \/ LastDecision.action = "BUY"
          /\ CostOfLastCall > ret_execution.balance_before
       \/ LastDecision.action = "SELL"
          /\ LastDecision.amount > HeldBefore

\* C17: the executor never returns a successful BUY whose executed price
\* times quantity exceeds the balance before the call, and never a
\* successful SELL of more than the position held before the call (nor of a
\* token not held).
C17_NoTradeBeyondMeans == LastCallUnaffordable => ~ret_execution.success

\* After an earlier trade, a buy whose quoted cost the balance would cover
\* but whose cost with slippage it does not, and which was rejected.
C17_Witness ==
    /\ LastCallUnaffordable
    /\ LastDecision.action = "BUY"
    /\ ret_execution.price * LastDecision.amount <= ret_execution.balance_before
    /\ ret_execution.trades_before # <<>>
    /\ ~ret_execution.success

\* The last call gave the executor one of the reasons to reject.
LastCallRejectable ==
    /\ ret_execution.called
    /\ \/ ~LastDecision.should_trade
       \/ LastDecision.action \notin {"BUY", "SELL"}
       \/ LastCallUnaffordable

\* C18: every rejected execution (a decision not to trade, a buy the balance
\* cannot pay, a sale without a position or above the holding, an unknown
\* action) returns success false with a non-empty error message and leaves
\* the balance, the positions and the trade log as they were.
C18_RejectionHasNoEffect ==
    /\ LastCallRejectable => ~ret_execution.success
    /\ (ret_execution.called /\ ~ret_execution.success) =>
          /\ ret_execution.error_message # ""
          /\ balance = ret_execution.balance_before
          /\ positions = ret_execution.positions_before
          /\ trades = ret_execution.trades_before

\* A sale of more than the position bought before was rejected.
C18_Witness ==
    /\ LastCallRejectable
    /\ LastDecision.action = "SELL"
    /\ HeldBefore > 0
    /\ LastDecision.amount > HeldBefore
    /\ ~ret_execution.success
    /\ ret_execution.error_message = "insufficient position"
    /\ positions = ret_execution.positions_before

\* amount * cost_basis - total_cost of a position, in 1/PriceUnit cent.
BasisError(p) ==
    LET d == p.amount * p.cost_basis - p.total_cost * PriceUnit
    IN  IF d < 0 THEN -d ELSE d

\* What rounding may have put between amount * cost_basis and total_cost:
\* a cent for each trade made, and a cent for the average cost itself.
BasisTolerance == (Len(trades) + 1) * PriceUnit

\* The last call was a successful sale of exactly what was held.
SoldAllHeld ==
    /\ ret_execution.called
    /\ ret_execution.success
    /\ LastDecision.action = "SELL"
    /\ LastDecision.amount = HeldBefore

\* C19: after every add_position and reduce_position each position held has
\* amount * cost_basis = total_cost within tolerance and amount > 0, and a
\* position reduced by exactly the quantity held has no entry left.
C19_PositionsConsistent ==
    /\ \A m \in Mints :
          HasPosition(positions, m) =>
             /\ positions[m].amount > 0
             /\ BasisError(positions[m]) <= BasisTolerance
    /\ SoldAllHeld => ~HasPosition(positions, LastDecision.token_mint)

\* A position bought and then sold in part: 150 of the 200 tokens are left.
C19_Witness ==
    /\ ret_execution.called
    /\ ret_execution.success
    /\ LastDecision.action = "SELL"
    /\ HeldBefore = 200
    /\ LastDecision.amount = 50
    /\ HasPosition(positions, "A")
    /\ positions["A"].amount = 150
    /\ positions["A"].total_cost > 0

\* A position bought twice and so averaged.
C19_WitnessAveraged ==
    /\ ret_execution.called
    /\ ret_execution.success
    /\ LastDecision.action = "BUY"
    /\ HeldBefore = 50
    /\ positions["A"].amount = 250
    /\ positions["A"].cost_basis # ret_execution.positions_before["A"].cost_basis

\* A position sold in full.
C19_WitnessSoldAll == SoldAllHeld /\ HeldBefore = 200

\* ------------------------------------------------------------------------
\* Properties of the scan loop started on a stored session (SpecStored)

\* A step of the signal loop that hands a signal to process_signal.
SignalStep ==
    /\ pc = "trade"
    /\ batch_pos' = batch_pos + 1
    /\ parse(batch[batch_pos]) # <<>>

\* C14: while the controller is paused no copy signal is traded: every
\* process_signal call made in a paused state returns a failure at the
\* risk-check stage and leaves the balance, the positions and the list of
\* executed trades as they were; and a scan that starts while the controller
\* is paused fetches no batch.
C14_PausedRefusesSignals ==
    [][/\ (is_paused /\ SignalStep) =>
            /\ ret_signal' = [success |-> FALSE, stage |-> "risk check"]
            /\ ~ret_allowed'
            /\ UNCHANGED <<balance, positions, trades>>
       /\ (is_paused /\ pc = "idle" /\ risk_op' = "check_trading_allowed") =>
            /\ ~ret_allowed'
            /\ UNCHANGED <<pc, batch, balance, positions, trades>>]_vars

\* A batch whose first sale was the loss that paused the controller and whose
\* next signal was then refused at the risk check.
C14_Witness ==
    /\ risk_op = "process_signal"
    /\ is_paused
    /\ pause_reason = REASON_LOSSES
    /\ ret_signal = [success |-> FALSE, stage |-> "risk check"]
    /\ Len(trades) = 1
    /\ batch_pos = 3

\* A step of the signal loop in which process_signal executed a trade.
TradeStep == SignalStep /\ ret_signal'.success

\* The drawdown of the portfolio from the highest balance is at or below
\* MAX_DRAWDOWN.
InDrawdown ==
    DrawdownBreached(get_total_value(balance, positions), stats_max_balance)

\* C15: whenever, after a trade, the drawdown of the total value from the
\* highest balance is at or below MAX_DRAWDOWN, the controller is paused and
\* pause_until is that instant plus STOP_AFTER_TRIGGER_HOURS.
C15_DrawdownPausesAfterTrade ==
    [][(TradeStep /\ InDrawdown') =>
          (is_paused' /\ pause_until' = now + STOP_AFTER_TRIGGER_HOURS)]_vars

\* The SELL signals the wallet may give for a mint, of any quantity.
SellSignals(m) ==
    { [signature |-> None, action |-> "SELL", token_mint |-> m, amount |-> n] :
          n \in Amounts \cup {5} }

\* What the strategy decides on a SELL signal in the current state: nothing
\* when the mint is not held, the whole position otherwise.
SellDecisionIsWholePosition ==
    \A m \in Mints : \A signal \in SellSignals(m) : \A price \in Prices :
        LET decision == decide(signal, price, balance, positions)
        IN  IF HasPosition(positions, m)
            THEN /\ decision.should_trade
                 /\ decision.action = "SELL"
                 /\ decision.amount = positions[m].amount
            ELSE ~decision.should_trade

\* The signal the signal loop hands over next.
NextSignal == parse(batch[batch_pos])[1]

\* C21: on a SELL signal the strategy rejects when the asset is not held and
\* otherwise decides to sell the whole position, whatever quantity the signal
\* reports; once the sale has executed the asset has no position entry.
C21_SellsWholePosition ==
    [][/\ SellDecisionIsWholePosition
       /\ (SignalStep /\ NextSignal.action = "SELL" /\ ~is_paused) =>
             IF HasPosition(positions, NextSignal.token_mint)
             THEN ret_signal'.success =>
                     /\ ~HasPosition(positions', NextSignal.token_mint)
                     /\ trades' = Append(trades, <<NextSignal.signature, "SELL">>)
             ELSE /\ ret_signal' = [success |-> FALSE, stage |-> "strategy"]
                  /\ UNCHANGED <<balance, positions, trades>>]_vars

\* The wallet sold 5 tokens of A and the copy sold all 105 it held.
C21_Witness ==
    /\ risk_op = "process_signal"
    /\ ret_signal = [success |-> TRUE, stage |-> "done"]
    /\ Len(trades) = 1
    /\ trades[1][2] = "SELL"
    /\ first_pass.positions["A"].amount = 105
    /\ ~HasPosition(positions, "A")

\* The notional the configuration asks a buy to have: FIXED_TRADE_AMOUNT in
\* the fixed mode, the ratio of the balance otherwise.
ConfiguredNotional(current_balance) ==
    IF USE_FIXED_AMOUNT THEN FIXED_TRADE_AMOUNT
    ELSE (current_balance * TRADE_RATIO_PERCENT) \div 100

\* C22: a buy is sized by the configured mode: the notional is the fixed
\* amount or the ratio of the balance, a notional under MIN_TRADE_AMOUNT is
\* rejected, and the quantity bought is notional / price.
C22_BuySizedByConfiguredMode ==
    [][(SignalStep /\ NextSignal.action = "BUY" /\ ~is_paused) =>
          LET m == NextSignal.token_mint
              notional == ConfiguredNotional(balance)
          IN  IF notional < MIN_TRADE_AMOUNT
              THEN ~ret_signal'.success
              ELSE ret_signal'.success =>
                      \E price \in Prices :
                         positions'[m].amount - positions[m].amount
                             = notional \div price]_vars

\* ------------------------------------------------------------------------
\* Properties of the polling strategy (checked under SpecSched)

\* A call of on_transaction_detected.
DetectionStep == sched_op' = "on_transaction_detected" /\ detections' # detections

\* C23: a detection puts the strategy in Burst, from Idle and from Burst
\* alike, with the deadline at the time of that detection plus
\* BURST_DURATION, whatever deadline was stored before; and the mode is Burst
\* exactly when a deadline is stored.
C23_BurstWindowSlides ==
    [][/\ (mode = "BURST") <=> (burst_end_time # None)
       /\ DetectionStep =>
             /\ mode' = "BURST"
             /\ burst_end_time' = clock + BURST_DURATION
       /\ (mode' = "BURST") <=> (burst_end_time' # None)]_vars

\* A second detection, 100 seconds into a burst, moved the deadline from 300
\* to 400.
C23_Witness ==
    /\ sched_op = "on_transaction_detected"
    /\ detections = 2
    /\ mode = "BURST"
    /\ clock = 2 * ClockStep
    /\ burst_end_time = 2 * ClockStep + BURST_DURATION

\* A call of get_interval.
IntervalStep == sched_op' = "get_interval"

\* C24: get_interval returns the burst interval during a burst before its
\* deadline; the first call at or after the deadline switches to Idle and
\* returns the idle interval; in Idle it returns the idle interval; and once
\* detections have ended the strategy is eventually Idle for good.
C24_BurstEndsLazily ==
    /\ [][IntervalStep =>
            IF mode = "BURST" /\ clock < burst_end_time
            THEN /\ ret_interval' = BURST_INTERVAL
                 /\ UNCHANGED <<mode, burst_end_time>>
            ELSE /\ ret_interval' = IDLE_INTERVAL
                 /\ mode' = "IDLE"
                 /\ burst_end_time' = None]_vars
    /\ <>[](mode = "IDLE")

\* The call that ended a burst at its deadline.
C24_Witness ==
    /\ sched_op = "get_interval"
    /\ mode = "IDLE"
    /\ burst_end_time = None
    /\ ret_interval = IDLE_INTERVAL
    /\ detections = 1
    /\ clock = BURST_DURATION

\* -----------------------------------------------------------------------
\* Properties of the price oracle (checked under SpecOracle)

\* The TTL in ticks of the oracle's clock.
TTLTicks == PRICE_CACHE_TTL * TicksPerSecond

\* C25: get_price returns the cached quote without querying any source
\* whenever the asset's cache entry is within the TTL, and never returns an
\* entry older than the TTL; a stale entry is evicted on lookup and the
\* sources are queried again.
C25_CacheHonoursTTL ==
    ret_price.called =>
        /\ (ret_price.had_entry /\ ret_price.age <= TTLTicks) =>
               (ret_price.hit /\ ret_price.queried = 0)
        /\ ret_price.hit => ret_price.age <= TTLTicks
        /\ (ret_price.had_entry /\ ~ret_price.hit) => ret_price.queried >= 1

\* What get_price does keep: the age it bounds is the difference of the two
\* whole-second timestamps, so an entry it returns is less than a second
\* older than the TTL.
CacheHonoursTTLInWholeSeconds ==
    ret_price.called =>
        /\ (ret_price.had_entry /\ ret_price.age_seconds <= PRICE_CACHE_TTL) =>
               (ret_price.hit /\ ret_price.queried = 0)
        /\ ret_price.hit => /\ ret_price.age_seconds <= PRICE_CACHE_TTL
                            /\ ret_price.age < TTLTicks + TicksPerSecond
        /\ (ret_price.had_entry /\ ~ret_price.hit) =>
               /\ ret_price.queried >= 1
               /\ ret_price.age > TTLTicks

\* A stale entry was looked up, evicted, and no source had a quote.
StaleEntryEvicted ==
    /\ oracle_op = "get_price"
    /\ ret_price.had_entry /\ ~ret_price.hit
    /\ ~cache[ret_price.mint].present

\* The first source, in priority order, whose answer is a quote with a price
\* above zero; 0 if there is none.
FirstUsable(answers) ==
    LET usable == { i \in 1..Len(answers) :
                      answers[i].kind = "price" /\ answers[i].price > 0 }
    IN  IF usable = {} THEN 0 ELSE CHOOSE i \in usable : \A k \in usable : i <= k

\* C26: under the fallback strategy a get_price that misses the cache queries
\* the sources in priority order and returns and caches the quote of the
\* first source with a usable quote (price > 0); a source that raises or
\* answers nothing is skipped, the call still returning; if no source has a
\* usable quote the result is absent and nothing is cached.
C26_FallbackFirstUsable ==
    [][\A mint \in Mints : \A answers \in [1..NumSources -> SourceAnswers] :
         (GetPrice(mint, answers) /\ ~ret_price'.hit) =>
             LET i == FirstUsable(answers)
             IN  /\ ret_price'.called
                 /\ IF i = 0
                    THEN /\ ret_price'.info = NoPriceInfo
                         /\ ret_price'.queried = NumSources
                         /\ ~cache'[mint].present
                    ELSE /\ ret_price'.info = PriceInfo(answers[i].price)
                         /\ ret_price'.queried = i
                         /\ cache'[mint].present
                         /\ cache'[mint].info = ret_price'.info
                         /\ cache'[mint].stored_at = oracle_now]_vars

\* The first source failed and the quote of the second was returned and
\* cached.
C26_Witness ==
    /\ oracle_op = "get_price"
    /\ ~ret_price.hit
    /\ ret_price.queried = 2
    /\ ret_price.info = PriceInfo(300)
    /\ cache[ret_price.mint].info = PriceInfo(300)

\* -----------------------------------------------------------------------
\* Properties of the parser (checked under SpecParse)

\* The net amount of tokens other than wrapped SOL that the transfers from
\* index i on bring to the wallet: incoming minus outgoing.
RECURSIVE NetTokenDelta(_, _)
NetTokenDelta(token_transfers, i) ==
    IF i > Len(token_transfers) THEN 0
    ELSE LET transfer == token_transfers[i]
             rest == NetTokenDelta(token_transfers, i + 1)
         IN  IF transfer.mint = WSOL_MINT THEN rest
             ELSE rest
                  + (IF transfer.toUserAccount = TARGET_WALLET
                     THEN transfer.tokenAmount ELSE 0)
                  - (IF transfer.fromUserAccount = TARGET_WALLET
                     THEN transfer.tokenAmount ELSE 0)

\* The action and amount of each signal returned.
SignalsReturned ==
    [k \in 1..Len(ret_signals) |-> <<ret_signals[k].action, ret_signals[k].amount>>]

\* C27: for a swap the target-asset delta is the sum, over all token
\* transfers other than wrapped SOL, of the amounts incoming to the wallet
\* minus the amounts outgoing from it; parse returns one BUY signal when that
\* net is positive, one SELL when it is negative, no signal when it is zero
\* or the transaction is not a swap, always with a non-negative amount.
C27_SignalFollowsNetDelta ==
    parse_done =>
        LET net == NetTokenDelta(parse_tx.tokenTransfers, 1)
        IN  SignalsReturned =
                IF ~is_swap_transaction(parse_tx) \/ net = 0 THEN <<>>
                ELSE IF net > 0 THEN << <<"BUY", net>> >>
                     ELSE << <<"SELL", -net>> >>

\* What parse does keep: at most one signal, none for a transaction that is
\* not a swap, never a negative amount, and the signal of the net delta when
\* at most one transfer of the token touches the wallet.
TouchingTransfers ==
    { i \in 1..Len(parse_tx.tokenTransfers) :
        /\ parse_tx.tokenTransfers[i].mint # WSOL_MINT
        /\ \/ parse_tx.tokenTransfers[i].toUserAccount = TARGET_WALLET
           \/ parse_tx.tokenTransfers[i].fromUserAccount = TARGET_WALLET }
ParseOfSingleTransfer ==
    parse_done =>
        /\ Len(ret_signals) <= 1
        /\ ~is_swap_transaction(parse_tx) => ret_signals = <<>>
        /\ \A k \in 1..Len(ret_signals) : ret_signals[k].amount > 0
        /\ (Cardinality(TouchingTransfers) <= 1
            /\ \A i \in TouchingTransfers :
                 parse_tx.tokenTransfers[i].toUserAccount
                     # parse_tx.tokenTransfers[i].fromUserAccount)
           => C27_SignalFollowsNetDelta

\* -----------------------------------------------------------------------
\* Properties of the worker threads (checked under SpecWorkers)

\* A number of pending notifications below the number the tracker publishes.
PendingLimit == MaxPublishes - 1

\* C28: the tracker never blocks when it puts a notification on the update
\* queue, and the number of pending notifications stays bounded however slow
\* the asset updater is, the oldest being dropped from a full queue.
C28_PublishNeverBlocksQueueBounded ==
    /\ wpc[Tracker] = "body" => ~put_blocks(update_queue)
    /\ Len(update_queue) <= PendingLimit

\* What the queue does keep: a put never blocks, and every notification
\* published stays pending until the updater takes it.
PublishNeverBlocks ==
    /\ wpc[Tracker] = "body" => ~put_blocks(update_queue)
    /\ wpc[Updater] \in {"created", "wait_init"} => Len(update_queue) = published

\* C29: stop() aborts no iteration: a worker leaves run() only from the
\* tests between iterations, with its flag cleared, and the step that clears
\* the flag moves no worker; and a started worker whose flag is cleared
\* eventually leaves run(), also when it is still waiting for
\* initialization.
C29_StopEndsWorkersBetweenIterations ==
    /\ [][\A w \in Workers :
            /\ (wpc'[w] = "exited" /\ wpc[w] # "exited") =>
                   (wpc[w] \in {"wait_init", "loop"} /\ ~running[w])
            /\ running'[w] # running[w] => wpc' = wpc]_vars
    /\ \A w \in Workers :
         (~running[w] /\ wpc[w] # "created") ~> (wpc[w] = "exited")

\* A worker stopped while it waited for an initialization that never ended
\* has left run().
C29_Witness ==
    \E w \in Workers :
        /\ wpc[w] = "exited"
        /\ ~initialized[w]
        /\ ~running[w]

\* A worker was stopped in the middle of an iteration.
C29_WitnessStoppedInIteration ==
    \E w \in Workers : ~running[w] /\ wpc[w] \in {"body", "sleep"}

\* -----------------------------------------------------------------------
\* Properties of the scan loop with failures (checked under SpecFaults)

\* The signatures on which a stage has failed.
FailedAt(stage) == { f[2] : f \in { g \in failed : g[1] = stage } }

\* C30: a failure while saving, parsing or executing one transaction or
\* signal of a batch keeps no other transaction of the batch from being
\* processed and never ends the polling loop: the step in which it happens
\* leaves the batch as it is and moves on to the next transaction, every
\* transaction of the batch whose saving did not fail is in the log, and once
\* the scan is over every transaction of the batch has gone through the
\* signal loop.
C30_FailureSkipsOneTransaction ==
    /\ [](pc # "down")
    /\ [](Signatures(batch) \ FailedAt("save") \subseteq
              { tx_log[i] : i \in 1..Len(tx_log) })
    /\ [](pc = "idle" => Signatures(batch) \subseteq processed)
    /\ [][(failed' # failed /\ pc = "trade") =>
             /\ batch' = batch
             /\ batch_pos' = batch_pos + 1
             /\ batch_pos < Len(batch) => pc' = "trade"]_vars

\* The first transaction of a batch of two failed in process_signal and the
\* second one was traded.
C30_Witness ==
    /\ pc = "idle"
    /\ Len(batch) = 2
    /\ <<"execute", batch[1].signature>> \in failed
    /\ \E k \in 1..Len(trades) : trades[k][1] = batch[2].signature

\* The saving of the first transaction of a batch of two failed and the
\* second one is in the log.
C30_WitnessSave ==
    /\ Len(batch) = 2
    /\ <<"save", batch[1].signature>> \in failed
    /\ \E i \in 1..Len(tx_log) : tx_log[i] = batch[2].signature
    /\ ~\E i \in 1..Len(tx_log) : tx_log[i] = batch[1].signature

\* -----------------------------------------------------------------------
\* Properties of the start of the orchestrator (checked under SpecAssetInit)

\* C31: when every one of the ASSET_SYNC_MAX_RETRIES attempts fails, the
\* initialization reports a failure to its caller: the asset updater is never
\* initialized, let alone running, with no asset data and no failure
\* reported.
C31_InitFailureIsExplicit ==
    initialized[Updater] => (assets_synced \/ init_failure)

\* What initialize does keep: it gives up only after the configured number
\* of attempts, and it stops at the first attempt that succeeds.
AssetInitRetries ==
    /\ (initialized[Updater] /\ ~assets_synced) =>
           sync_attempts = ASSET_SYNC_MAX_RETRIES
    /\ sync_attempts <= ASSET_SYNC_MAX_RETRIES

\* The asset updater runs its loop without asset data.
RunningWithoutAssets ==
    /\ wpc[Updater] = "body"
    /\ ~assets_synced
    /\ ~init_failure

\* -----------------------------------------------------------------------
\* Properties of the sweep over the positions (checked under SpecSweep)

\* The types of the actions returned for a mint, in the order returned.
ActionsFor(mint) ==
    SelectSeq([k \in 1..Len(ret_actions) |->
                   IF ret_actions[k].mint = mint
                   THEN ret_actions[k].action_type ELSE ""],
              LAMBDA t : t # "")

\* The checks made on a position, in the order of their priority, with the
\* switch each one hangs on.
ChecksMatching(position) ==
    SelectSeq(<< <<"STOP_LOSS", sweep_in.enable_stop_loss /\ check_stop_loss(position)>>,
                 <<"TAKE_PROFIT", sweep_in.enable_take_profit /\ check_take_profit(position)>>,
                 <<"TIME_STOP", sweep_in.enable_stop_loss /\ check_time_stop(position)>> >>,
              LAMBDA c : c[2])

\* C32: a sweep returns at most one action for each open position, that of
\* the first check that matches in the order stop-loss, take-profit,
\* time-stop; with neither switch on it returns nothing.
C32_OneActionPerPosition ==
    sweep_done =>
        /\ \A i \in 1..Len(sweep_in.positions) :
             LET position == sweep_in.positions[i]
                 matching == ChecksMatching(position)
             IN  ActionsFor(position.mint) =
                     IF matching = <<>> THEN <<>> ELSE <<matching[1][1]>>
        /\ (~sweep_in.enable_stop_loss /\ ~sweep_in.enable_take_profit) =>
               ret_actions = <<>>
        /\ \A k \in 1..Len(ret_actions) :
             \E i \in 1..Len(sweep_in.positions) :
                 ret_actions[k].mint = sweep_in.positions[i].mint

\* A position past the stop-loss line and past the maximal holding time got
\* the stop-loss action and no other.
C32_Witness ==
    /\ sweep_done
    /\ \E i \in 1..Len(sweep_in.positions) :
         /\ check_stop_loss(sweep_in.positions[i])
         /\ check_time_stop(sweep_in.positions[i])
         /\ ActionsFor(sweep_in.positions[i].mint) = <<"STOP_LOSS">>

\* C33: check_all_positions does not look at the paused flag, and with one
\* of the two switches on it returns an action for every open position that
\* is at or below the stop-loss line, at or above the take-profit line, or
\* held for at least the maximal holding time, the last also when only
\* take-profit is switched on.
C33_EveryMatchingPositionExits ==
    (sweep_done /\ (sweep_in.enable_stop_loss \/ sweep_in.enable_take_profit)) =>
        \A i \in 1..Len(sweep_in.positions) :
            LET position == sweep_in.positions[i]
            IN  (check_stop_loss(position) \/ check_take_profit(position)
                 \/ check_time_stop(position))
                => ActionsFor(position.mint) # <<>>

\* C40: with both switches on and the lines at -0.30 and 1.00, the sweep
\* returns STOP_LOSS exactly for the positions marked at least 30 % below
\* their cost basis and TAKE_PROFIT exactly for those marked at least 100 %
\* above it: the stored unrealized_pnl_percent and the two lines are in the
\* same unit.
C40_LinesInUnitOfStoredPnl ==
    (sweep_done /\ sweep_in.enable_stop_loss /\ sweep_in.enable_take_profit) =>
        \A i \in 1..Len(sweep_in.positions) :
            LET position == sweep_in.positions[i]
                types == ActionsFor(position.mint)
            IN  /\ (types = <<"STOP_LOSS">>) <=>
                       (position.current_price * 100 <= position.cost_basis * 70)
                /\ (types = <<"TAKE_PROFIT">>) <=>
                       (position.current_price >= position.cost_basis * 2)

\* What the sweep does with the lines: unrealized_pnl_percent is stored as a
\* percentage and compared with lines that are fractions, so STOP_LOSS comes
\* from a loss of 0.3 % on and TAKE_PROFIT from a gain of 1 % on.
LinesAsPercentages ==
    (sweep_done /\ sweep_in.enable_stop_loss /\ sweep_in.enable_take_profit) =>
        \A i \in 1..Len(sweep_in.positions) :
            LET position == sweep_in.positions[i]
                types == ActionsFor(position.mint)
            IN  /\ (types = <<"STOP_LOSS">>) <=>
                       (position.current_price * 1000 <= position.cost_basis * 997)
                /\ (types = <<"TAKE_PROFIT">>) <=>
                       (position.current_price * 100 >= position.cost_basis * 101)

\* ------------------------------------------------------------------------
\* Properties of the executor's ledger (checked under SpecLedger)
Abs(x) == IF x < 0 THEN -x ELSE x

\* What a purchase of amount tokens quoted at price costs with a slippage of
\* bps: executed_price * amount, executed_price = price * (1 + bps / 10000).
CostAt(price, bps, amount) == (price * (10000 + bps) * amount) \div 10000

\* What a sale brings: executed_price = price * (1 - bps / 10000).
IncomeAt(price, bps, amount) == (price * (10000 - bps) * amount) \div 10000

\* Rounding of the average cost leaves less than a cent for each trade made
\* and one for the average itself, in 1/PriceUnit cent.
FoldTolerance == (Len(trades) + 2) * PriceUnit

\* C34: a successful purchase takes executed_price * quantity off the balance,
\* the slippage lying within the configured range, and folds that cost into
\* the position: the quantity grows by the quantity bought, the total cost by
\* the cost, the cost basis becomes (old_qty * old_cost + cost) / new_qty, and
\* a position that existed keeps its entry time.
C34_BuyFoldsCostIntoPosition ==
    [][\A decision \in LedgerDecisions : \A quote \in LedgerQuotes :
             (/\ LedgerExecute(decision, quote.price, quote.bps)
              /\ decision.action = "BUY"
              /\ ret_execution'.success)
             => LET mint == decision.token_mint
                    price == quote.price
                    bps == quote.bps
                    cost == CostAt(price, bps, decision.amount)
                    old == positions[mint]
                    new == positions'[mint]
                IN  /\ bps \in SLIPPAGE_MIN_BPS..SLIPPAGE_MAX_BPS
                    /\ balance' = balance - cost
                    /\ new.held
                    /\ new.amount = old.amount + decision.amount
                    /\ new.total_cost = old.total_cost + cost
                    /\ Abs(new.amount * new.cost_basis
                           - (old.amount * old.cost_basis + cost * PriceUnit))
                          <= FoldTolerance
                    /\ old.held => entry_time'[mint] = entry_time[mint]
                    /\ ~old.held => entry_time'[mint] = now]_vars

\* A position was added to at a later time and at another price than it was
\* opened at.
C34_Witness ==
    /\ ret_ledger.op = "execute"
    /\ ret_ledger.ok
    /\ LastDecision.action = "BUY"
    /\ LET mint == LastDecision.token_mint
           old == ret_execution.positions_before[mint]
       IN  /\ old.held
           /\ entry_time[mint] < now
           /\ old.cost_basis # positions[mint].cost_basis

\* C35: a successful sale adds executed_price * quantity to the balance and
\* reports realized PnL = (executed_price - cost_basis) * quantity; a sale of
\* the whole quantity deletes the position, a sale of less keeps the cost
\* basis and the entry time and takes the quantity and its share of the total
\* cost off the position.
C35_SellCreditsAndReportsPnl ==
    [][\A decision \in LedgerDecisions : \A quote \in LedgerQuotes :
             (/\ LedgerExecute(decision, quote.price, quote.bps)
              /\ decision.action = "SELL"
              /\ ret_execution'.success)
             => LET mint == decision.token_mint
                    price == quote.price
                    bps == quote.bps
                    qty == decision.amount
                    old == positions[mint]
                    new == positions'[mint]
                IN  /\ balance' = balance + IncomeAt(price, bps, qty)
                    /\ Abs(ret_ledger'.realized_pnl * PriceUnit
                           - (exit_price(price, bps) - old.cost_basis) * qty)
                          < PriceUnit
                    /\ qty = old.amount => ~new.held
                    /\ qty < old.amount =>
                          /\ new.held
                          /\ new.cost_basis = old.cost_basis
                          /\ new.amount = old.amount - qty
                          /\ Abs(new.total_cost * old.amount
                                 - old.total_cost * new.amount)
                                <= (Len(trades) + 2) * old.amount
                          /\ entry_time'[mint] = entry_time[mint]]_vars

\* 100 tokens bought at 1.00 with 200 basis points and sold at 1.50 with 100
\* basis points: the sale reports 46.50 and leaves no position.
C35_Witness ==
    /\ ret_ledger.op = "execute"
    /\ ret_ledger.ok
    /\ LastDecision.action = "SELL"
    /\ LastDecision.amount = 100
    /\ ret_execution.price = 150
    /\ ret_execution.bps = 100
    /\ LET old == ret_execution.positions_before[LastDecision.token_mint]
       IN  /\ old.amount = 100
           /\ old.total_cost = CostAt(100, 200, 100)
    /\ ret_ledger.realized_pnl = 4650
    /\ ~HasPosition(positions, LastDecision.token_mint)

\* A position was sold in part.
C35_WitnessPartial ==
    /\ ret_ledger.op = "execute"
    /\ ret_ledger.ok
    /\ LastDecision.action = "SELL"
    /\ HasPosition(positions, LastDecision.token_mint)

\* C38: whatever purchases, sales, deposits and withdrawals were made, the
\* balance is not negative.
C38_BalanceNeverNegative == balance >= 0

\* A withdrawal went through and left less than a purchase then asked for.
C38_Witness ==
    /\ cash_ops > 0
    /\ ret_ledger.op = "execute"
    /\ ~ret_ledger.ok
    /\ LastDecision.action = "BUY"
    /\ ret_execution.error_message = "insufficient balance"
    /\ balance < CostAt(ret_execution.price, ret_execution.bps,
                        LastDecision.amount)

\* A withdrawal of more than the balance was refused.
C38_WitnessRefused ==
    /\ ret_ledger.op = "withdraw"
    /\ ~ret_ledger.ok
    /\ ret_ledger.amount > ret_ledger.balance_before

\* ------------------------------------------------------------------------
\* Properties of a pause and its end (checked under SpecPause)
\* A scan has polled since trading was last resumed.
PolledSinceResume ==
    /\ ~is_paused
    /\ risk_op = "check_trading_allowed"
    /\ ret_allowed

\* C36: while the controller is paused a scan returns before polling, and the
\* first poll made after resume_trading() delivers every transaction made
\* during the pause.
C36_ResumeDeliversPausedTransactions ==
    PolledSinceResume /\ Cardinality(pause_txs) <= SCAN_LIMIT
       => pause_txs \subseteq delivered

\* While the controller is paused a scan moves neither the anchor nor the
\* batch and delivers nothing.
PausedScanPollsNothing ==
    [][Scan /\ is_paused =>
          UNCHANGED <<last_known_sig, batch, batch_pos, tx_log, delivered, pc>>]_vars

\* With an anchor that was held when the pause began, the poll of the next
\* scan returns every transaction made during the pause.
AnchoredResumeDeliversPausedTransactions ==
    (/\ ~is_paused
     /\ risk_op = "resume_trading"
     /\ last_known_sig # None
     /\ \A sig \in pause_txs : sig > last_known_sig)
       => pause_txs \subseteq Signatures(poll_answered(SCAN_LIMIT).new_txs)

\* Trading was resumed with an anchor and transactions made during the pause.
AnchoredResume ==
    /\ ~is_paused
    /\ risk_op = "resume_trading"
    /\ last_known_sig # None
    /\ pause_txs # {}
    /\ \A sig \in pause_txs : sig > last_known_sig

\* ------------------------------------------------------------------------
\* A loss recorded during a pause (checked under SpecRisk)
\* record_trade_result(False) is called while the controller is paused.
LossWhilePaused == is_paused /\ RecordTradeResult(FALSE)

\* C37 as stated: a loss recorded while the controller is paused triggers the
\* pause again: it stays paused and pause_until becomes the time of that loss
\* plus the configured hours.
C37_LossWhilePausedRetriggers ==
    [][LossWhilePaused =>
          /\ is_paused'
          /\ pause_until' = PauseDeadline(now)]_vars

\* C37: a loss recorded while the controller is paused leaves it paused; it
\* sets pause_until to the time of that loss plus the configured hours when
\* the counter it has raised is at the limit or above, and leaves pause_until
\* as it is otherwise; and while the controller is paused pause_until never
\* decreases.
C37_LossAtLimitRetriggers ==
    /\ [][LossWhilePaused =>
            /\ is_paused'
            /\ consecutive_losses' = consecutive_losses + 1
            /\ LossLimitReached(consecutive_losses') =>
                  pause_until' = PauseDeadline(now)
            /\ ~LossLimitReached(consecutive_losses') =>
                  pause_until' = pause_until]_vars
    /\ [][is_paused /\ is_paused' => pause_until' >= pause_until]_vars

\* A loss beyond the limit was recorded during a pause, later than the pause
\* could have begun, and set the deadline anew.
C37_Witness ==
    /\ is_paused
    /\ risk_op = "record_loss"
    /\ consecutive_losses > MAX_CONSECUTIVE_LOSSES
    /\ now > 0
    /\ pause_until = PauseDeadline(now)

\* A loss below the limit was recorded during a pause: a profit had cleared
\* the counter, and the deadline is the one set before.
LossBelowLimitWhilePaused ==
    /\ is_paused
    /\ risk_op = "record_loss"
    /\ pause_reason = REASON_LOSSES
    /\ consecutive_losses < MAX_CONSECUTIVE_LOSSES
    /\ pause_until < PauseDeadline(now)

\* ------------------------------------------------------------------------
\* Properties of the reset of a session (checked under SpecSession)
\* reset_session has begun a session.
SessionBegins == session_id' = session_id + 1

\* C39: reset_session sets the balance to INITIAL_BALANCE and the
\* coordinator's counters to zero, and leaves the positions in memory and the
\* risk controller's paused flag, deadline and loss counter as they were.
C39_ResetKeepsPositionsAndPause ==
    [][SessionBegins =>
          /\ balance' = INITIAL_BALANCE
          /\ signal_stats' = NoSignals
          /\ UNCHANGED <<positions, is_paused, pause_until,
                         consecutive_losses>>]_vars

\* A session that has just begun with the initial balance, no signal counted,
\* a position bought in the session before and the pause set in it.
C39_Witness ==
    /\ session_id = 1
    /\ signal_stats = NoSignals
    /\ balance = INITIAL_BALANCE
    /\ \E m \in Mints : HasPosition(positions, m)
    /\ is_paused
    /\ pause_until # None
    /\ consecutive_losses >= MAX_CONSECUTIVE_LOSSES

\* The session that was reset had counted signals and changed the balance.
ResetAfterTrading ==
    /\ session_id = 1
    /\ signal_stats = NoSignals
    /\ balance = INITIAL_BALANCE
    /\ trades # <<>>
    /\ \E m \in Mints : HasPosition(positions, m)

\* The pause in memory is not in the new session's metadata.
ResetLeavesPauseUnsaved ==
    /\ session_id = 1
    /\ is_paused
    /\ stored_risk = NoRiskState

\* ------------------------------------------------------------------------
\* Properties of the scan loop (checked under Spec)

\* The transactions of the current batch the signal loop has not reached yet.
Pending ==
    IF pc = "trade"
    THEN {batch[i].signature : i \in batch_pos..Len(batch)}
    ELSE {}

\* C1: no transaction poll() has handed out is lost: it has gone through the
\* signal loop, or it is still waiting in the current batch, or it is newer
\* than the anchor (or there is no anchor yet), so that a coming poll() can
\* deliver it again.
C1_DeliveredNeverLost ==
    \A s \in delivered :
        \/ s \in processed
        \/ s \in Pending
        \/ last_known_sig = None
        \/ s > last_known_sig

\* ------------------------------------------------------------------------
\* Properties of the replayed batch (checked under SpecReplay)

\* The signatures of the batch whose signal was acted on in the first pass.
ActedOnInFirstPass ==
    {first_pass.trades[i][1] : i \in 1..Len(first_pass.trades)}

\* The signatures of the batch that carry a signal.
SignalsOfBatch ==
    {chain[i].signature : i \in {j \in 1..Len(chain) : parse(chain[j]) # <<>>}}

\* C2: when every signal of the batch was acted on in the first pass and the
\* second pass over the same batch has ended, balance and positions are what
\* they were when the first pass had ended: no signature trades a second time.
C2_ReplayIsIdempotent ==
    (passes = 2 /\ pc = "idle" /\ SignalsOfBatch \subseteq ActedOnInFirstPass) =>
        /\ balance = first_pass.balance
        /\ positions = first_pass.positions
        /\ trades = first_pass.trades

\* C20: the signals of one poll batch are handled oldest first: the batch is
\* in chain order, the signal loop has handled exactly the transactions
\* before its position, so an older transaction's signals are decided and
\* executed before a newer one's, and the trades executed are in chain order.
C20_BatchOldestFirst ==
    /\ \A i, j \in 1..Len(batch) :
          i < j => batch[i].signature < batch[j].signature
    /\ pc = "trade" =>
          \A i \in 1..Len(batch) :
             (batch[i].signature \in processed) <=> (i < batch_pos)
    /\ \A i, j \in 1..Len(trades) : i < j => trades[i][1] < trades[j][1]

\* A batch of two: the older transaction's buy was executed first, and the
\* newer one's sale then sold the position it had opened.
C20_Witness ==
    /\ Len(batch) = 2
    /\ batch_pos = 3
    /\ trades = <<<<batch[1].signature, "BUY">>, <<batch[2].signature, "SELL">>>>
    /\ ~HasPosition(positions, "A")

====
